---- MODULE Spec2Model ----
(***************************************************************************)
(* AttendEase: the attendance ledger, the chat rate limiter and the        *)
(* propose / confirm / cancel protocol of the AI assistant (src/app.py,    *)
(* src/models.py), as a state machine.                                     *)
(*                                                                         *)
(* Time is the integer number of seconds of time.time(); the calendar day  *)
(* of date.today() is the day number now \div 86400.                       *)
(***************************************************************************)
EXTENDS Integers, Sequences, FiniteSets, Bags, TLC

VARIABLES
    now,               \* time.time(), in seconds
    ledger,            \* the attendance table: a bag of rows
    chat_rate_limits,  \* user id -> list of accepted request timestamps
    session,           \* user id -> session['pending_attendance'] of the user's session
    accepted,          \* history: user id -> every timestamp check_rate_limit ever accepted
    txn,               \* request slot -> database transaction in flight (interleaved handlers)
    users,             \* user id -> the password-reset columns of the user's row
    resp               \* the response of the handler that ran last

vars == <<now, ledger, chat_rate_limits, session, accepted, txn, users, resp>>

(***************************************************************************)
(* Program constants.                                                      *)
(***************************************************************************)
RATE_LIMIT_REQUESTS == 20
RATE_LIMIT_WINDOW == 86400
PENDING_TTL == 300
LECTURES_MIN == 1
LECTURES_MAX == 3
\* A limit one character short.
MESSAGE_MAX_SHORT == 500 - 1
\* len(user_message) > 500
MESSAGE_MAX == 500

(***************************************************************************)
(* Bounds of the model.                                                    *)
(***************************************************************************)
\* Longest list of proposed edits the oracle returns.
MaxBatch == 2
\* Largest lecture count typed into the direct-edit form or proposed.
MaxLectures == 4

Users == {1, 2}
\* Rows of the subjects table.
Subjects == {1, 2}
\* Subject ids a proposal may name: the known ones and one that does not exist.
SubjectIds == Subjects \cup {9}

Today(t) == t \div 86400

Max(a, b) == IF a >= b THEN a ELSE b
Min(a, b) == IF a <= b THEN a ELSE b

(***************************************************************************)
(* Rate limiter.                                                           *)
(***************************************************************************)
\* A window of two days.
InWindowTwoDays(t, stamp) == t - stamp < 2 * RATE_LIMIT_WINDOW

\* now - t < RATE_LIMIT_WINDOW
InWindow(t, stamp) == t - stamp < RATE_LIMIT_WINDOW

\* A limiter that never evicts: capacity is consumed for ever.
check_rate_limit_no_evict(stamps, t) ==
    IF Len(stamps) >= RATE_LIMIT_REQUESTS
    THEN [allowed |-> FALSE, remaining |-> 0, stamps |-> stamps]
    ELSE [allowed |-> TRUE,
          remaining |-> RATE_LIMIT_REQUESTS - (Len(stamps) + 1),
          stamps |-> Append(stamps, t)]

\* A limiter whose capacity test is off by one.
check_rate_limit_off_by_one(stamps, t) ==
    LET kept == SelectSeq(stamps, LAMBDA x : InWindow(t, x))
    IN  IF Len(kept) > RATE_LIMIT_REQUESTS
        THEN [allowed |-> FALSE, remaining |-> 0, stamps |-> kept]
        ELSE [allowed |-> TRUE,
              remaining |-> RATE_LIMIT_REQUESTS - (Len(kept) + 1),
              stamps |-> Append(kept, t)]

\* A limiter that reports the capacity left before it records the call.
check_rate_limit_counts_before(stamps, t) ==
    LET kept == SelectSeq(stamps, LAMBDA x : t - x < RATE_LIMIT_WINDOW)
    IN  IF Len(kept) >= RATE_LIMIT_REQUESTS
        THEN [allowed |-> FALSE, remaining |-> 0, stamps |-> kept]
        ELSE [allowed |-> TRUE,
              remaining |-> RATE_LIMIT_REQUESTS - Len(kept),
              stamps |-> Append(kept, t)]

\* check_rate_limit(user_id) on the user's list `stamps` at time t: the result
\* (allowed, remaining) and the list it leaves behind.
check_rate_limit(stamps, t) ==
    LET kept == SelectSeq(stamps, LAMBDA x : InWindow(t, x))
    IN  IF Len(kept) >= RATE_LIMIT_REQUESTS
        THEN [allowed |-> FALSE, remaining |-> 0, stamps |-> kept]
        ELSE [allowed |-> TRUE,
              remaining |-> RATE_LIMIT_REQUESTS - (Len(kept) + 1),
              stamps |-> Append(kept, t)]

(***************************************************************************)
(* The attendance table.  A row is                                         *)
(*   [user, subject, date, total, present];                                *)
(* the table is a bag, so that two rows of one (user, subject, date) can   *)
(* be told from one.                                                       *)
(***************************************************************************)
Row(u, s, d, t, p) ==
    [user |-> u, subject |-> s, date |-> d, total |-> t, present |-> p]

SameKey(r, q) ==
    r.user = q.user /\ r.subject = q.subject /\ r.date = q.date

\* Attendance.query.filter_by(user_id, subject_id, date)
rows_for(L, u, s, d) ==
    {r \in BagToSet(L) : r.user = u /\ r.subject = s /\ r.date = d}

\* A table without the constraint.
unique_attendance_dropped(L) == TRUE

\* UniqueConstraint('user_id', 'subject_id', 'date', name='unique_attendance')
unique_attendance(L) ==
    \A r \in BagToSet(L) :
        /\ CopiesIn(r, L) = 1
        /\ \A q \in BagToSet(L) : SameKey(r, q) => q = r

\* The sums of lectures_present and lectures_total over the rows in S, each
\* counted as often as it is in the table L.
RECURSIVE sum_rows(_, _)
sum_rows(L, S) ==
    IF S = {}
    THEN [present |-> 0, total |-> 0]
    ELSE LET r == CHOOSE x \in S : TRUE
             rest == sum_rows(L, S \ {r})
         IN  [present |-> rest.present + CopiesIn(r, L) * r.present,
              total |-> rest.total + CopiesIn(r, L) * r.total]

\* The query of Subject.get_user_attendance: coalesce(sum(...), 0) over the
\* rows of user u in subject s.
sum_lectures(L, u, s) ==
    sum_rows(L, {r \in BagToSet(L) : r.user = u /\ r.subject = s})

\* One statement of a unit of work, applied to the table L: [ok, L].
\*   insert: INSERT; IntegrityError when the constraint is violated.
\*   update: UPDATE of the row of that key; StaleDataError when it is gone.
\*   delete: DELETE of the row of that key, if it is still there.
apply_op(L, op) ==
    LET ex == rows_for(L, op.row.user, op.row.subject, op.row.date)
        old == CHOOSE r \in ex : TRUE
    IN  CASE op.kind = "insert" ->
               LET L2 == L (+) SetToBag({op.row})
               IN  IF unique_attendance(L2)
                   THEN [ok |-> TRUE, L |-> L2]
                   ELSE [ok |-> FALSE, L |-> L]
          [] op.kind = "update" ->
               IF ex = {}
               THEN [ok |-> FALSE, L |-> L]
               ELSE [ok |-> TRUE,
                     L |-> (L (-) SetToBag({old})) (+) SetToBag({op.row})]
          [] OTHER ->
               IF ex = {}
               THEN [ok |-> TRUE, L |-> L]
               ELSE [ok |-> TRUE, L |-> L (-) SetToBag({old})]

RECURSIVE apply_ops(_, _)
apply_ops(L, ops) ==
    IF ops = <<>>
    THEN [ok |-> TRUE, L |-> L]
    ELSE LET r == apply_op(L, Head(ops))
         IN  IF r.ok THEN apply_ops(r.L, Tail(ops)) ELSE r

\* db.session.commit() of the statements `ops` on the table L; on an error
\* the handler's db.session.rollback() leaves L as it was.
commit(L, ops) ==
    LET r == apply_ops(L, ops)
    IN  IF r.ok THEN r ELSE [ok |-> FALSE, L |-> L]

(***************************************************************************)
(* Loosely typed input values.  A form field or a JSON member is an        *)
(* integer, absent, or something int() rejects; a date string either       *)
(* parses with '%Y-%m-%d' to a day or does not (a missing date included).  *)
(***************************************************************************)
IntField(v) == [tag |-> "int", val |-> v]
BadField == [tag |-> "bad", val |-> 0]
NoField == [tag |-> "missing", val |-> 0]

YmdDate(d) == [tag |-> "ymd", val |-> d]
BadDate == [tag |-> "bad", val |-> 0]

\* datetime.strptime(date_str, '%Y-%m-%d').date(), with `dflt` where the
\* handler catches ValueError / TypeError.
strptime_or(date_str, dflt) ==
    IF date_str.tag = "ymd" THEN date_str.val ELSE dflt

\* No check of the date against today.
clamp_future_none(d, today) == d

\* "Prevent future dates": a date after today is replaced by today.
clamp_future(d, today) == IF d > today THEN today ELSE d

RECURSIVE SortedSeq(_)
SortedSeq(S) ==
    IF S = {}
    THEN <<>>
    ELSE LET m == CHOOSE x \in S : \A y \in S : x <= y
         IN  <<m>> \o SortedSeq(S \ {m})

\* Subject.query.all()
all_subjects == SortedSeq(Subjects)

\* A unit of work on the view `view` of the table: the statements issued so
\* far (`ops`), whether an exception was raised (`ok`), the count `n`.
Work(ok, view, ops, n) == [ok |-> ok, view |-> view, ops |-> ops, n |-> n]

\* The statement is recorded and, through autoflush, seen by the next query.
Issue(w, op, counted) ==
    Work(w.ok, apply_op(w.view, op).L, Append(w.ops, op),
         IF counted THEN w.n + 1 ELSE w.n)

(***************************************************************************)
(* Direct edit: the POST branch of mark_attendance.                        *)
(* form[s] = [lectures |-> field, status |-> string] for every subject s.  *)
(***************************************************************************)
\* int(request.form.get(lectures_field, '0')), 0 on ValueError
form_lectures(f) == IF f.tag = "int" THEN f.val ELSE 0

\* The "no lecture" branch lost: a zero count is stored like any other.
mark_subject_keep_zero(w, u, s, d, f) ==
    LET lectures_total == form_lectures(f.lectures)
        lectures_present == IF f.status = "present" THEN lectures_total ELSE 0
        existing == rows_for(w.view, u, s, d)
        row == Row(u, s, d, lectures_total, lectures_present)
    IN  IF existing # {}
        THEN Issue(w, [kind |-> "update", row |-> row], TRUE)
        ELSE Issue(w, [kind |-> "insert", row |-> row], TRUE)

\* The body of "for subject in subjects" for subject s.
mark_subject(w, u, s, d, f) ==
    LET lectures_total == form_lectures(f.lectures)
        lectures_present == IF f.status = "present" THEN lectures_total ELSE 0
        existing == rows_for(w.view, u, s, d)
        row == Row(u, s, d, lectures_total, lectures_present)
    IN  IF lectures_total = 0
        THEN IF existing # {}
             THEN Issue(w, [kind |-> "delete", row |-> row], TRUE)
             ELSE w
        ELSE IF existing # {}
             THEN Issue(w, [kind |-> "update", row |-> row], TRUE)
             ELSE Issue(w, [kind |-> "insert", row |-> row], TRUE)

RECURSIVE mark_loop(_, _, _, _, _)
mark_loop(w, u, subs, d, form) ==
    IF subs = <<>>
    THEN w
    ELSE mark_loop(mark_subject(w, u, Head(subs), d, form[Head(subs)]),
                   u, Tail(subs), d, form)

\* target_date of mark_attendance for the requested date string.
mark_target_date(requested, today) ==
    clamp_future(strptime_or(requested, today), today)

\* The unit of work of a direct-edit save by user u on the table L.
mark_work(L, u, requested, form, today) ==
    mark_loop(Work(TRUE, L, <<>>, 0), u, all_subjects,
              mark_target_date(requested, today), form)

(***************************************************************************)
(* Proposed edits.  An item is                                             *)
(*   [subject_id, date, lectures, status];                                 *)
(* status "missing" stands for an item without a status.  The data of a    *)
(* proposal is a list of items, or something the confirm loop cannot       *)
(* iterate as items (tag "junk": null, a number, a string).                *)
(***************************************************************************)
Item(s, d, l, st) ==
    [subject_id |-> s, date |-> d, lectures |-> l, status |-> st]

ListData(items) == [tag |-> "list", items |-> items]
JunkData == [tag |-> "junk", items |-> <<>>]

\* item.get('lectures', 1)
item_lectures(item) ==
    IF item.lectures.tag = "missing" THEN IntField(1) ELSE item.lectures

\* item.get('status', 'present')
item_status(item) ==
    IF item.status = "missing" THEN "present" ELSE item.status

\* No clamp: the count is stored as proposed.
clamp_lectures_none(v) == v

\* max(1, min(3, int(lectures)))
clamp_lectures(v) == Max(LECTURES_MIN, Min(LECTURES_MAX, v))


\* An upsert that adds to the row it finds.
confirm_upsert_accumulate(w, u, s, d, lectures, lectures_present) ==
    LET existing == rows_for(w.view, u, s, d)
        old == CHOOSE r \in existing : TRUE
    IN  IF existing # {}
        THEN Issue(w, [kind |-> "update",
                       row |-> Row(u, s, d, old.total + lectures,
                                   old.present + lectures_present)], TRUE)
        ELSE Issue(w, [kind |-> "insert",
                       row |-> Row(u, s, d, lectures, lectures_present)], TRUE)

\* An upsert that leaves lectures_present of the row it finds.
confirm_upsert_keeps_present(w, u, s, d, lectures, lectures_present) ==
    LET existing == rows_for(w.view, u, s, d)
        old == CHOOSE r \in existing : TRUE
    IN  IF existing # {}
        THEN Issue(w, [kind |-> "update",
                       row |-> Row(u, s, d, lectures, old.present)], TRUE)
        ELSE Issue(w, [kind |-> "insert",
                       row |-> Row(u, s, d, lectures, lectures_present)], TRUE)

\* An upsert that leaves a row it finds as it is.
confirm_upsert_keep_existing(w, u, s, d, lectures, lectures_present) ==
    LET existing == rows_for(w.view, u, s, d)
        row == Row(u, s, d, lectures, lectures_present)
    IN  IF existing # {}
        THEN Work(w.ok, w.view, w.ops, w.n + 1)
        ELSE Issue(w, [kind |-> "insert", row |-> row], TRUE)

\* "Upsert attendance record" of confirm_attendance.
confirm_upsert(w, u, s, d, lectures, lectures_present) ==
    LET existing == rows_for(w.view, u, s, d)
        row == Row(u, s, d, lectures, lectures_present)
    IN  IF existing # {}
        THEN Issue(w, [kind |-> "update", row |-> row], TRUE)
        ELSE Issue(w, [kind |-> "insert", row |-> row], TRUE)

\* A loop body that raises on a subject that does not exist.
confirm_item_abort_unknown(w, u, item, today) ==
    IF item.subject_id \notin Subjects
    THEN Work(FALSE, w.view, w.ops, w.n)
    ELSE LET attendance_date ==
                 clamp_future(strptime_or(item.date, today), today)
             raw == item_lectures(item)
         IN  IF raw.tag # "int"
             THEN Work(FALSE, w.view, w.ops, w.n)
             ELSE LET lectures == clamp_lectures(raw.val)
                      lectures_present ==
                          IF item_status(item) = "present" THEN lectures ELSE 0
                  IN  confirm_upsert(w, u, item.subject_id, attendance_date,
                                     lectures, lectures_present)

\* The body of "for item in data" of confirm_attendance.
confirm_item(w, u, item, today) ==
    IF item.subject_id \notin Subjects
    THEN w
    ELSE LET attendance_date ==
                 clamp_future(strptime_or(item.date, today), today)
             raw == item_lectures(item)
         IN  IF raw.tag # "int"
             THEN Work(FALSE, w.view, w.ops, w.n)
             ELSE LET lectures == clamp_lectures(raw.val)
                      lectures_present ==
                          IF item_status(item) = "present" THEN lectures ELSE 0
                  IN  confirm_upsert(w, u, item.subject_id, attendance_date,
                                     lectures, lectures_present)

RECURSIVE confirm_loop(_, _, _, _)
confirm_loop(w, u, items, today) ==
    IF items = <<>> \/ ~w.ok
    THEN w
    ELSE confirm_loop(confirm_item(w, u, Head(items), today),
                      u, Tail(items), today)

\* The unit of work of confirm_attendance for the pending data, up to its
\* commit: ok is FALSE when the loop raised.
confirm_work(L, u, data, today) ==
    IF data.tag # "list"
    THEN Work(FALSE, L, <<>>, 0)
    ELSE confirm_loop(Work(TRUE, L, <<>>, 0), u, data.items, today)

(***************************************************************************)
(* Oracle text and parse_ai_response.                                      *)
(* A text is a sequence of tokens [t, j]:                                  *)
(*   "fence_json"  the characters ```json                                  *)
(*   "fence"       the characters ``` not followed by json                 *)
(*   "space"       white space                                             *)
(*   "word"        prose that is no JSON document                          *)
(*   "json"        a JSON document, j: an object [k = "obj"] with its      *)
(*                 "action" ("absent" when it has none), its "data"        *)
(*                 (tag "absent" when it has none) and whether it has a    *)
(*                 "message"; or [k = "nonobj"], a list, number, string    *)
(*                 or null                                                 *)
(*   "msg"         in a result only: the object's "message" member         *)
(***************************************************************************)
NoData == [tag |-> "absent", items |-> <<>>]
NoJson == [k |-> "none", action |-> "absent", data |-> NoData, has_message |-> FALSE]
JsonObj(action, data, has_message) ==
    [k |-> "obj", action |-> action, data |-> data, has_message |-> has_message]
JsonNonObj ==
    [k |-> "nonobj", action |-> "absent", data |-> NoData, has_message |-> FALSE]

Tok(t) == [t |-> t, j |-> NoJson]
JsonTok(j) == [t |-> "json", j |-> j]

\* str.find of a token class from position `from` (1-based); 0 when absent.
find_fence_json(text, from) ==
    LET S == {i \in from..Len(text) : text[i].t = "fence_json"}
    IN  IF S = {} THEN 0 ELSE CHOOSE i \in S : \A k \in S : i <= k

\* The characters ``` also open every ```json.
find_fence(text, from) ==
    LET S == {i \in from..Len(text) : text[i].t \in {"fence", "fence_json"}}
    IN  IF S = {} THEN 0 ELSE CHOOSE i \in S : \A k \in S : i <= k

\* str.strip()
strip(text) ==
    LET S == {i \in 1..Len(text) : text[i].t # "space"}
    IN  IF S = {}
        THEN <<>>
        ELSE SubSeq(text, CHOOSE i \in S : \A k \in S : i <= k,
                          CHOOSE i \in S : \A k \in S : i >= k)

\* json.loads: the document, or JSONDecodeError (ok = FALSE).
json_loads(json_str) ==
    IF Len(json_str) = 1 /\ json_str[1].t = "json"
    THEN [ok |-> TRUE, j |-> json_str[1].j]
    ELSE [ok |-> FALSE, j |-> NoJson]

\* A reading of "data" that keeps the first item only.
json_data_first(j) ==
    IF j.data.tag = "absent" THEN ListData(<<>>)
    ELSE IF j.data.tag = "list" /\ Len(j.data.items) > 1
    THEN ListData(<<Head(j.data.items)>>)
    ELSE j.data

\* action_data.get('data', [])
json_data(j) == IF j.data.tag = "absent" THEN ListData(<<>>) ELSE j.data

Parsed(raised, has_action, action, data, message) ==
    [raised |-> raised, has_action |-> has_action, action |-> action,
     data |-> data, message |-> message]

NoAction(text) == Parsed(FALSE, FALSE, "absent", ListData(<<>>), text)

\* parse_ai_response(response_text); raised = TRUE when an exception other
\* than json.JSONDecodeError leaves the function.
parse_ai_response(response_text) ==
    LET open == find_fence_json(response_text, 1)
        start == open + 1
        end == find_fence(response_text, start)
        loaded == json_loads(strip(SubSeq(response_text, start, end - 1)))
        message_before == strip(SubSeq(response_text, 1, open - 1))
        rest == SubSeq(response_text, end + 1, Len(response_text))
        message_after ==
            strip(IF response_text[end].t = "fence_json"
                  THEN <<Tok("word")>> \o rest ELSE rest)
        clean_message == strip(message_before \o <<Tok("space")>> \o message_after)
        action_data == loaded.j
    IN  IF open = 0 \/ ~(end > start) \/ ~loaded.ok
        THEN NoAction(response_text)
        ELSE IF action_data.k # "obj"
        THEN Parsed(TRUE, FALSE, "absent", ListData(<<>>), <<>>)
        ELSE Parsed(FALSE, TRUE, action_data.action, json_data(action_data),
                    IF clean_message # <<>> THEN clean_message
                    ELSE IF action_data.has_message THEN <<Tok("msg")>>
                    ELSE <<>>)

(***************************************************************************)
(* Session and responses.                                                  *)
(***************************************************************************)
NoPending == [has |-> FALSE, data |-> ListData(<<>>), timestamp |-> 0]
Pending(data, t) == [has |-> TRUE, data |-> data, timestamp |-> t]

\* What a handler answered: the HTTP status, which branch answered, the
\* marked_count / rate_limit_remaining it reported, and the kinds of the
\* statements it committed.
RespSql(op, u, code, why, marked, remaining, sql) ==
    [op |-> op, user |-> u, code |-> code, why |-> why,
     marked |-> marked, remaining |-> remaining, sql |-> sql]

Resp(op, u, code, why, marked, remaining) ==
    RespSql(op, u, code, why, marked, remaining, <<>>)

Kinds(ops) == [i \in 1..Len(ops) |-> ops[i].kind]

\* One list of timestamps for all users.
RateAfterShared(u, rl) ==
    /\ chat_rate_limits' = [v \in Users |-> rl.stamps]
    /\ accepted' = IF rl.allowed
                   THEN [accepted EXCEPT ![u] = Append(@, now)]
                   ELSE accepted

\* chat_rate_limits and the history of accepted requests after a call of
\* check_rate_limit(u) that returned rl.
RateAfter(u, rl) ==
    /\ chat_rate_limits' = [chat_rate_limits EXCEPT ![u] = rl.stamps]
    /\ accepted' = IF rl.allowed
                   THEN [accepted EXCEPT ![u] = Append(@, now)]
                   ELSE accepted

Reqs == {1, 2}
Idle == [busy |-> FALSE, op |-> "none", user |-> 0, ok |-> TRUE, ops |-> <<>>, n |-> 0]
Busy(op, u, w) ==
    [busy |-> TRUE, op |-> op, user |-> u, ok |-> w.ok, ops |-> w.ops, n |-> w.n]

\* An expiry test that fires one second early.
expired_at_ttl(pending, t) == t - pending.timestamp >= PENDING_TTL

\* The pending proposal has aged out: time.time() - pending['timestamp'] > 300
expired(pending, t) == t - pending.timestamp > PENDING_TTL

(***************************************************************************)
(* The handlers, each run from its first line to its response.             *)
(***************************************************************************)
\* Time passes to the instant t.
Tick(t) ==
    /\ t > now
    /\ now' = t
    /\ resp' = Resp("tick", 0, 0, "", 0, 0)
    /\ UNCHANGED <<ledger, chat_rate_limits, session, accepted, txn, users>>

\* A call of check_rate_limit(u).
CheckRateLimit(u) ==
    LET rl == check_rate_limit(chat_rate_limits[u], now)
    IN  /\ RateAfter(u, rl)
        /\ resp' = Resp("check", u, IF rl.allowed THEN 200 ELSE 429,
                        IF rl.allowed THEN "allowed" ELSE "rate_limit",
                        0, rl.remaining)
        /\ UNCHANGED <<now, users, ledger, session, txn>>

\* No rollback: what the unit of work has flushed stays in the table.
rollback_keeps_flushed(L, w) == [ok |-> FALSE, L |-> w.view]

\* db.session.rollback() of the unit of work w begun on the table L.
rollback(L, w) == [ok |-> FALSE, L |-> L]

\* The try / except around db.session.commit(): the table after the unit
\* of work w begun on L, committed if it raised nothing and the store
\* accepts the commit (db_ok), rolled back otherwise.
commit_or_rollback(L, w, db_ok) ==
    IF w.ok /\ db_ok
    THEN LET c == commit(L, w.ops) IN IF c.ok THEN c ELSE rollback(L, w)
    ELSE rollback(L, w)

\* POST /mark-attendance by user u: the requested date, the form, and
\* whether the commit goes through (db_ok) or raises.
MarkAttendance(u, requested, form, db_ok) ==
    LET w == mark_work(ledger, u, requested, form, Today(now))
        c == commit_or_rollback(ledger, w, db_ok)
    IN  /\ ledger' = c.L
        /\ resp' = IF c.ok
                   THEN RespSql("mark", u, 302, "saved", 0, 0, Kinds(w.ops))
                   ELSE Resp("mark", u, 200, "failed", 0, 0)
        /\ UNCHANGED <<now, users, chat_rate_limits, session, accepted, txn>>

\* A chat turn that adds a new proposal's edits to those already pending.
ChatAnswerMerging(u, rl, available, message_len, oracle) ==
    LET parsed == parse_ai_response(oracle.text)
        answer(code, why) == Resp("chat", u, code, why, 0, rl.remaining)
        old == session[u]
        merged == IF old.has /\ old.data.tag = "list" /\ parsed.data.tag = "list"
                  THEN ListData(old.data.items \o parsed.data.items)
                  ELSE parsed.data
    IN  IF ~rl.allowed
        THEN resp' = answer(429, "rate_limit") /\ UNCHANGED session
        ELSE IF ~available
        THEN resp' = answer(503, "unavailable") /\ UNCHANGED session
        ELSE IF message_len = 0
        THEN resp' = answer(400, "empty") /\ UNCHANGED session
        ELSE IF message_len > MESSAGE_MAX
        THEN resp' = answer(400, "too_long") /\ UNCHANGED session
        ELSE IF ~oracle.ok \/ parsed.raised
        THEN resp' = answer(500, "error") /\ UNCHANGED session
        ELSE IF parsed.has_action /\ parsed.action = "preview_attendance"
        THEN /\ session' = [session EXCEPT ![u] = Pending(merged, now)]
             /\ resp' = answer(200, "preview")
        ELSE /\ resp' = answer(200, IF parsed.has_action THEN "action" ELSE "message")
             /\ UNCHANGED session

\* A chat turn that looks at the message before the client.
ChatAnswerMessageFirst(u, rl, available, message_len, oracle) ==
    LET parsed == parse_ai_response(oracle.text)
        answer(code, why) == Resp("chat", u, code, why, 0, rl.remaining)
    IN  IF ~rl.allowed
        THEN resp' = answer(429, "rate_limit") /\ UNCHANGED session
        ELSE IF message_len = 0
        THEN resp' = answer(400, "empty") /\ UNCHANGED session
        ELSE IF message_len > MESSAGE_MAX
        THEN resp' = answer(400, "too_long") /\ UNCHANGED session
        ELSE IF ~available
        THEN resp' = answer(503, "unavailable") /\ UNCHANGED session
        ELSE IF ~oracle.ok \/ parsed.raised
        THEN resp' = answer(500, "error") /\ UNCHANGED session
        ELSE IF parsed.has_action /\ parsed.action = "preview_attendance"
        THEN /\ session' = [session EXCEPT ![u] = Pending(parsed.data, now)]
             /\ resp' = answer(200, "preview")
        ELSE /\ resp' = answer(200, IF parsed.has_action THEN "action" ELSE "message")
             /\ UNCHANGED session

\* A chat answer that stores the data of every parsed action, whatever its
\* kind.
ChatAnswerAnyAction(u, rl, available, message_len, oracle) ==
    LET parsed == parse_ai_response(oracle.text)
        answer(code, why) == Resp("chat", u, code, why, 0, rl.remaining)
    IN  IF ~rl.allowed
        THEN resp' = answer(429, "rate_limit") /\ UNCHANGED session
        ELSE IF ~available
        THEN resp' = answer(503, "unavailable") /\ UNCHANGED session
        ELSE IF message_len = 0
        THEN resp' = answer(400, "empty") /\ UNCHANGED session
        ELSE IF message_len > MESSAGE_MAX
        THEN resp' = answer(400, "too_long") /\ UNCHANGED session
        ELSE IF ~oracle.ok \/ parsed.raised
        THEN resp' = answer(500, "error") /\ UNCHANGED session
        ELSE IF parsed.has_action
        THEN /\ session' = [session EXCEPT ![u] = Pending(parsed.data, now)]
             /\ resp' = answer(200, IF parsed.action = "preview_attendance"
                                    THEN "preview" ELSE "action")
        ELSE /\ resp' = answer(200, "message")
             /\ UNCHANGED session

\* A chat answer that restarts the five minutes of a pending proposal on
\* every reply without a preview.
ChatAnswerTouching(u, rl, available, message_len, oracle) ==
    LET parsed == parse_ai_response(oracle.text)
        answer(code, why) == Resp("chat", u, code, why, 0, rl.remaining)
    IN  IF ~rl.allowed
        THEN resp' = answer(429, "rate_limit") /\ UNCHANGED session
        ELSE IF ~available
        THEN resp' = answer(503, "unavailable") /\ UNCHANGED session
        ELSE IF message_len = 0
        THEN resp' = answer(400, "empty") /\ UNCHANGED session
        ELSE IF message_len > MESSAGE_MAX
        THEN resp' = answer(400, "too_long") /\ UNCHANGED session
        ELSE IF ~oracle.ok \/ parsed.raised
        THEN resp' = answer(500, "error") /\ UNCHANGED session
        ELSE IF parsed.has_action /\ parsed.action = "preview_attendance"
        THEN /\ session' = [session EXCEPT ![u] = Pending(parsed.data, now)]
             /\ resp' = answer(200, "preview")
        ELSE /\ resp' = answer(200, IF parsed.has_action THEN "action" ELSE "message")
             /\ session' = [session EXCEPT ![u] =
                              IF @.has THEN Pending(@.data, now) ELSE @]

\* chat_api after the rate-limit gate returned rl: the response and the
\* session.
ChatAnswer(u, rl, available, message_len, oracle) ==
    LET parsed == parse_ai_response(oracle.text)
        answer(code, why) == Resp("chat", u, code, why, 0, rl.remaining)
    IN  IF ~rl.allowed
        THEN resp' = answer(429, "rate_limit") /\ UNCHANGED session
        ELSE IF ~available
        THEN resp' = answer(503, "unavailable") /\ UNCHANGED session
        ELSE IF message_len = 0
        THEN resp' = answer(400, "empty") /\ UNCHANGED session
        ELSE IF message_len > MESSAGE_MAX
        THEN resp' = answer(400, "too_long") /\ UNCHANGED session
        ELSE IF ~oracle.ok \/ parsed.raised
        THEN resp' = answer(500, "error") /\ UNCHANGED session
        ELSE IF parsed.has_action /\ parsed.action = "preview_attendance"
        THEN /\ session' = [session EXCEPT ![u] = Pending(parsed.data, now)]
             /\ resp' = answer(200, "preview")
        ELSE /\ resp' = answer(200, IF parsed.has_action THEN "action" ELSE "message")
             /\ UNCHANGED session

\* A chat turn that trusts the oracle: the parsed edits are written at once.
ChatApiTrusting(u, available, message_len, oracle) ==
    LET rl == check_rate_limit(chat_rate_limits[u], now)
        w == confirm_work(ledger, u, parse_ai_response(oracle.text).data, Today(now))
    IN  /\ RateAfter(u, rl)
        /\ ChatAnswer(u, rl, available, message_len, oracle)
        /\ ledger' = IF resp'.why = "preview"
                     THEN commit_or_rollback(ledger, w, TRUE).L
                     ELSE ledger
        /\ UNCHANGED <<now, users, txn>>

\* A chat turn that gives the slot back when it does not answer 200.
ChatApiRefunding(u, available, message_len, oracle) ==
    LET rl == check_rate_limit(chat_rate_limits[u], now)
    IN  /\ ChatAnswer(u, rl, available, message_len, oracle)
        /\ IF rl.allowed /\ resp'.code # 200
           THEN UNCHANGED <<chat_rate_limits, accepted>>
           ELSE RateAfter(u, rl)
        /\ UNCHANGED <<now, users, ledger, txn>>

\* POST /api/chat by user u: whether the Gemini client is available, the
\* length of the stripped message, and what the oracle does (oracle.ok =
\* FALSE: generate_content raises; otherwise oracle.text is its reply).
ChatApi(u, available, message_len, oracle) ==
    LET rl == check_rate_limit(chat_rate_limits[u], now)
    IN  /\ RateAfter(u, rl)
        /\ ChatAnswer(u, rl, available, message_len, oracle)
        /\ UNCHANGED <<now, users, ledger, txn>>

\* A confirm without the "no pending action" return: an absent proposal is
\* an empty batch.
ConfirmAttendanceUnguarded(u, db_ok) ==
    LET pending == session[u]
        w == confirm_work(ledger, u,
                          IF pending.has THEN pending.data ELSE ListData(<<>>),
                          Today(now))
        c == commit_or_rollback(ledger, w, db_ok)
    IN  /\ UNCHANGED <<now, users, chat_rate_limits, accepted, txn>>
        /\ IF pending.has /\ expired(pending, now)
           THEN /\ session' = [session EXCEPT ![u] = NoPending]
                /\ resp' = Resp("confirm", u, 400, "expired", 0, 0)
                /\ UNCHANGED ledger
           ELSE IF c.ok
           THEN /\ ledger' = c.L
                /\ session' = [session EXCEPT ![u] = NoPending]
                /\ resp' = RespSql("confirm", u, 200, "marked", w.n, 0, Kinds(w.ops))
           ELSE /\ ledger' = c.L
                /\ resp' = Resp("confirm", u, 500, "failed", 0, 0)
                /\ UNCHANGED session

\* A confirm that leaves the proposal in the session after its commit.
ConfirmAttendanceKeeping(u, db_ok) ==
    LET pending == session[u]
        w == confirm_work(ledger, u, pending.data, Today(now))
        c == commit_or_rollback(ledger, w, db_ok)
    IN  /\ UNCHANGED <<now, users, chat_rate_limits, accepted, txn>>
        /\ IF ~pending.has
           THEN /\ resp' = Resp("confirm", u, 400, "none", 0, 0)
                /\ UNCHANGED <<ledger, session>>
           ELSE IF expired(pending, now)
           THEN /\ session' = [session EXCEPT ![u] = NoPending]
                /\ resp' = Resp("confirm", u, 400, "expired", 0, 0)
                /\ UNCHANGED ledger
           ELSE IF c.ok
           THEN /\ ledger' = c.L
                /\ resp' = RespSql("confirm", u, 200, "marked", w.n, 0, Kinds(w.ops))
                /\ UNCHANGED session
           ELSE /\ ledger' = c.L
                /\ resp' = Resp("confirm", u, 500, "failed", 0, 0)
                /\ UNCHANGED session

\* POST /api/chat/confirm by user u; db_ok as in MarkAttendance.
ConfirmAttendance(u, db_ok) ==
    LET pending == session[u]
        w == confirm_work(ledger, u, pending.data, Today(now))
        c == commit_or_rollback(ledger, w, db_ok)
    IN  /\ UNCHANGED <<now, users, chat_rate_limits, accepted, txn>>
        /\ IF ~pending.has
           THEN /\ resp' = Resp("confirm", u, 400, "none", 0, 0)
                /\ UNCHANGED <<ledger, session>>
           ELSE IF expired(pending, now)
           THEN /\ session' = [session EXCEPT ![u] = NoPending]
                /\ resp' = Resp("confirm", u, 400, "expired", 0, 0)
                /\ UNCHANGED ledger
           ELSE IF c.ok
           THEN /\ ledger' = c.L
                /\ session' = [session EXCEPT ![u] = NoPending]
                /\ resp' = RespSql("confirm", u, 200, "marked", w.n, 0, Kinds(w.ops))
           ELSE /\ ledger' = c.L
                /\ resp' = Resp("confirm", u, 500, "failed", 0, 0)
                /\ UNCHANGED session

\* A cancel that refuses a proposal that has expired.
CancelAttendanceFresh(u) ==
    /\ IF session[u].has /\ expired(session[u], now)
       THEN /\ resp' = Resp("cancel", u, 400, "expired", 0, 0)
            /\ UNCHANGED session
       ELSE /\ session' = [session EXCEPT ![u] = NoPending]
            /\ resp' = Resp("cancel", u, 200, "cancelled", 0, 0)
    /\ UNCHANGED <<now, users, ledger, chat_rate_limits, accepted, txn>>

\* POST /api/chat/cancel by user u.
CancelAttendance(u) ==
    /\ session' = [session EXCEPT ![u] = NoPending]
    /\ resp' = Resp("cancel", u, 200, "cancelled", 0, 0)
    /\ UNCHANGED <<now, users, ledger, chat_rate_limits, accepted, txn>>

(***************************************************************************)
(* Inputs.                                                                 *)
(***************************************************************************)
\* Sequences over S of length at most n.
RECURSIVE SeqsUpTo(_, _)
SeqsUpTo(S, n) ==
    IF n = 0
    THEN {<<>>}
    ELSE LET shorter == SeqsUpTo(S, n - 1)
         IN  shorter \cup {Append(q, x) : q \in shorter, x \in S}

\* A reply whose fenced block is the JSON object j, with prose before it.
FencedReply(j) ==
    <<Tok("word"), Tok("space"), Tok("fence_json"), JsonTok(j), Tok("fence")>>

PreviewReply(items) ==
    FencedReply(JsonObj("preview_attendance", ListData(items), TRUE))

Says(text) == [ok |-> TRUE, text |-> text]
OracleFails == [ok |-> FALSE, text |-> <<>>]

\* A chat request: the client's availability, the stripped message's length
\* and the oracle's behaviour.
ChatRequest(available, message_len, oracle) ==
    [available |-> available, message_len |-> message_len, oracle |-> oracle]

\* The requests that end before the reply is parsed, and those whose reply
\* is one of `oracles`.
ChatRequests(oracles) ==
    { ChatRequest(FALSE, 1, OracleFails),
      ChatRequest(TRUE, 0, OracleFails),
      ChatRequest(TRUE, MESSAGE_MAX + 1, OracleFails),
      ChatRequest(TRUE, MESSAGE_MAX, OracleFails) }
    \cup {ChatRequest(TRUE, 1, o) : o \in oracles}

\* Replies without a proposal, or with one that is no list of items.
OddReplies ==
    { Says(<<Tok("word")>>),
      Says(FencedReply(JsonObj("summary", NoData, TRUE))),
      Says(FencedReply(JsonObj("preview_attendance", JunkData, FALSE))),
      Says(FencedReply(JsonNonObj)) }

\* Chat turns a user has left at the first instant: the others of the 20
\* were made one second before it.
FreeChats == 2

\* The password-reset columns of a row of `users` that has no token:
\* reset_token and reset_token_expires are None.  password_hash stands for
\* the password it was made of, and `spent` is history: the tokens a reset
\* of this user was accepted with.
\* A column that holds x is <<x>>.
None == <<>>
NoResetToken ==
    [reset_token |-> None, reset_token_expires |-> None,
     password_hash |-> "initial", spent |-> {}]

InitAt(start) ==
    /\ now = start
    /\ ledger = EmptyBag
    /\ session = [u \in Users |-> NoPending]
    /\ txn = [r \in Reqs |-> Idle]
    /\ resp = Resp("init", 0, 0, "", 0, 0)
    /\ chat_rate_limits = [u \in Users |-> [i \in 1..(RATE_LIMIT_REQUESTS - FreeChats) |-> start - 1]]
    /\ accepted = chat_rate_limits
    /\ users = [u \in Users |-> NoResetToken]

(***************************************************************************)
(* Spec: the propose / confirm / cancel protocol of user 1, beside direct  *)
(* edits of both users, around the expiry of a proposal.                   *)
(***************************************************************************)
\* 23:53:20 on day 1, and 300 and 301 seconds later.
ProtocolInstants == {172400, 172700, 172701}

\* A valid edit and one whose lecture count int() rejects.
ProtocolItems ==
    { Item(1, YmdDate(1), IntField(2), "present"),
      Item(2, BadDate, BadField, "absent") }

\* Every batch of them, and a batch that starts with an unknown subject.
ProtocolBatches ==
    SeqsUpTo(ProtocolItems, MaxBatch)
    \cup {<<Item(9, YmdDate(1), IntField(1), "present"),
            Item(1, YmdDate(1), IntField(2), "present")>>}

ProtocolOracle ==
    {Says(PreviewReply(b)) : b \in ProtocolBatches} \cup OddReplies

ProtocolRequests == ChatRequests(ProtocolOracle)

ProtocolForms ==
    { [s \in Subjects |-> [lectures |-> IF s = 1 THEN IntField(l) ELSE NoField,
                           status |-> "present"]] : l \in {0, 3} }

Init == InitAt(172400)

Next ==
    \/ \E t \in ProtocolInstants : Tick(t)
    \/ \E u \in Users, form \in ProtocolForms, db_ok \in BOOLEAN :
          MarkAttendance(u, NoField, form, db_ok)
    \/ \E rq \in ProtocolRequests :
          ChatApi(1, rq.available, rq.message_len, rq.oracle)
    \/ \E db_ok \in BOOLEAN : ConfirmAttendance(1, db_ok)
    \/ CancelAttendance(1)

Spec == Init /\ [][Next]_vars

(***************************************************************************)
(* SpecLedger: what user 1 writes into the ledger, by confirmed proposals  *)
(* and by direct edits, on day 1 and after midnight on day 2.              *)
(***************************************************************************)
\* 23:53:20 on day 1, and midnight, the start of day 2.
LedgerInstants == {172400, 172800}

\* Subject 1 on day 1, present in 2 lectures, then absent in 1; a date in
\* the future on day 1 with a count above the range; no date and a count
\* below the range; an unknown subject; a count int() rejects.
TwoPresent == Item(1, YmdDate(1), IntField(2), "present")
OneAbsent == Item(1, YmdDate(1), IntField(1), "absent")
FutureOver == Item(1, YmdDate(2), IntField(MaxLectures), "present")
UndatedUnder == Item(2, BadDate, IntField(-1), "absent")
UnknownSubject == Item(9, YmdDate(1), IntField(1), "present")
BadCount == Item(1, YmdDate(1), BadField, "present")

LedgerBatches ==
    { <<TwoPresent>>, <<OneAbsent>>, <<FutureOver>>, <<UndatedUnder>>,
      <<TwoPresent, OneAbsent>>, <<UnknownSubject, FutureOver>>,
      <<UndatedUnder, BadCount>> }

LedgerRequests ==
    {ChatRequest(TRUE, 1, Says(PreviewReply(b))) : b \in LedgerBatches}

\* A direct-edit save: the date asked for, the form, the commit's fate.
MarkRequest(requested, l, st, db_ok) ==
    [requested |-> requested,
     form |-> [s \in Subjects |->
                 IF s = 1 THEN [lectures |-> l, status |-> st]
                          ELSE [lectures |-> NoField, status |-> "present"]],
     db_ok |-> db_ok]

\* lectures_1 / status_1 as given; lectures_2 is left out of the form.
LedgerMarks ==
    { MarkRequest(NoField, IntField(-1), "present", TRUE),
      MarkRequest(NoField, IntField(-1), "absent", TRUE),
      MarkRequest(NoField, IntField(0), "present", TRUE),
      MarkRequest(NoField, BadField, "absent", TRUE),
      MarkRequest(YmdDate(2), IntField(MaxLectures), "absent", TRUE),
      MarkRequest(YmdDate(1), IntField(2), "present", TRUE),
      MarkRequest(YmdDate(1), IntField(2), "present", FALSE) }

NextLedger ==
    \/ \E t \in LedgerInstants : Tick(t)
    \/ \E m \in LedgerMarks : MarkAttendance(1, m.requested, m.form, m.db_ok)
    \/ \E rq \in LedgerRequests :
          ChatApi(1, rq.available, rq.message_len, rq.oracle)
    \/ \E db_ok \in BOOLEAN : ConfirmAttendance(1, db_ok)

SpecLedger == Init /\ [][NextLedger]_vars

(***************************************************************************)
(* What the claims speak of.                                               *)
(***************************************************************************)
\* The step was taken by the handler op (every handler leaves its response).
Ran(op) == resp'.op = op

\* The date, lecture count and present count a proposed edit stands for on
\* the day `today`.
EditDate(item, today) ==
    IF item.date.tag = "ymd" /\ item.date.val <= today THEN item.date.val ELSE today
EditTotal(item) ==
    LET v == IF item.lectures.tag = "missing" THEN 1 ELSE item.lectures.val
    IN  IF v < 1 THEN 1 ELSE IF v > 3 THEN 3 ELSE v
EditPresent(item) ==
    IF item.status \in {"present", "missing"} THEN EditTotal(item) ELSE 0

\* The edits of a batch that name a subject that exists.
Surviving(items) == {i \in 1..Len(items) : items[i].subject_id \in Subjects}

\* The table `after` is the table `before` with every surviving edit of
\* `items` written for user u: each key an edit resolves to holds one row,
\* with the values of the last edit for that key, and every other row is
\* as it was.
AllApplied(before, after, u, items, today) ==
    LET surv == Surviving(items)
        KeyOf(i) == <<items[i].subject_id, EditDate(items[i], today)>>
        LastOf(i) == CHOOSE j \in surv :
                        /\ KeyOf(j) = KeyOf(i)
                        /\ \A k \in surv : KeyOf(k) = KeyOf(i) => k <= j
        Touched(r) == r.user = u /\ \E i \in surv : KeyOf(i) = <<r.subject, r.date>>
    IN  /\ \A i \in surv :
             LET row == Row(u, KeyOf(i)[1], KeyOf(i)[2],
                            EditTotal(items[LastOf(i)]), EditPresent(items[LastOf(i)]))
             IN  /\ rows_for(after, u, KeyOf(i)[1], KeyOf(i)[2]) = {row}
                 /\ CopiesIn(row, after) = 1
        /\ \A r \in BagToSet(before) \cup BagToSet(after) :
             ~Touched(r) => CopiesIn(r, after) = CopiesIn(r, before)

(***************************************************************************)
(* Claims.                                                                 *)
(***************************************************************************)
\* C2: a chat turn never changes the ledger, whatever the oracle returns;
\* a step that changes the ledger is a confirm or a direct-edit save.
C2_ChatLeavesLedger ==
    [][ /\ (Ran("chat") => ledger' = ledger)
        /\ (ledger' # ledger => Ran("confirm") \/ Ran("mark")) ]_vars

\* C2 witness: a chat turn has stored a proposal of edits none of which is
\* in the ledger, which holds other rows.
C2_Witness ==
    /\ resp.op = "chat" /\ resp.why = "preview"
    /\ session[1].has /\ session[1].data.tag = "list"
    /\ Surviving(session[1].data.items) # {}
    /\ ledger # EmptyBag
    /\ ~AllApplied(ledger, ledger, 1, session[1].data.items, Today(now))

\* C3: a confirm of a pending proposal older than 5 minutes answers the
\* expired error, leaves the ledger as it is and removes the proposal; one of
\* a proposal aged at most 5 minutes goes on to the batch.
C3_ExpiredProposalRejected ==
    [][ \A u \in Users :
          Ran("confirm") /\ resp'.user = u /\ session[u].has =>
            IF now - session[u].timestamp > 300
            THEN /\ resp'.code = 400 /\ resp'.why = "expired"
                 /\ ledger' = ledger
                 /\ ~session'[u].has
            ELSE resp'.why \in {"marked", "failed"} ]_vars

\* C3 witness: a confirm has answered the expired error and the proposal is
\* gone.
C3_Witness ==
    /\ resp.op = "confirm" /\ resp.why = "expired" /\ resp.code = 400
    /\ ~session[resp.user].has

\* C4: a confirm is all or nothing: when it answers success every surviving
\* edit of the batch is in the ledger, and when it answers anything else
\* the ledger is as it was before the call.
C4_ConfirmAtomic ==
    [][ \A u \in Users :
          Ran("confirm") /\ resp'.user = u =>
            IF resp'.code = 200
            THEN AllApplied(ledger, ledger', u, session[u].data.items, Today(now))
            ELSE ledger' = ledger ]_vars

\* C4 witness: a confirm has failed on the second edit of its batch, after
\* the first, a valid edit, was written; the first edit is not in the ledger.
C4_Witness ==
    /\ resp.op = "confirm" /\ resp.code = 500
    /\ session[1].has /\ session[1].data.tag = "list"
    /\ Len(session[1].data.items) = 2
    /\ session[1].data.items[1].subject_id \in Subjects
    /\ session[1].data.items[1].lectures.tag = "int"
    /\ session[1].data.items[2].subject_id \in Subjects
    /\ session[1].data.items[2].lectures.tag = "bad"
    /\ ~AllApplied(ledger, ledger, 1, <<session[1].data.items[1]>>, Today(now))

\* The lecture count and the date a direct-edit form stands for.
FormTotal(f) == IF f.lectures.tag = "int" THEN f.lectures.val ELSE 0
FormPresent(f) == IF f.status = "present" THEN FormTotal(f) ELSE 0
FormDate(requested, today) ==
    IF requested.tag = "ymd" /\ requested.val <= today THEN requested.val ELSE today

\* The table after a confirm at time t, by user u, of the pending edits
\* `items`, on the table L.
Confirmed(L, u, items, t) ==
    commit_or_rollback(L, confirm_work(L, u, ListData(items), Today(t)), TRUE).L

\* C5: a write overwrites and never accumulates: after a successful confirm
\* every key an edit resolves to holds exactly the values of that edit, and
\* after a direct-edit save with a count t >= 1 the key holds exactly
\* (t, p), whatever it held before.  Present in 2 lectures overwritten by
\* absent in 1 leaves lectures_total = 1, lectures_present = 0 and the
\* subject's sums attended = 0, total_marked = 1.
C5_OverwriteNotAccumulate ==
    [][ /\ Ran("confirm") /\ resp'.code = 200 =>
             AllApplied(ledger, ledger', resp'.user,
                        session[resp'.user].data.items, Today(now))
        /\ \A m \in LedgerMarks :
             MarkAttendance(1, m.requested, m.form, TRUE) =>
               \A s \in Subjects :
                 FormTotal(m.form[s]) >= 1 =>
                   /\ rows_for(ledger', 1, s, FormDate(m.requested, Today(now)))
                        = {Row(1, s, FormDate(m.requested, Today(now)),
                               FormTotal(m.form[s]), FormPresent(m.form[s]))}
                   /\ sum_rows(ledger',
                               rows_for(ledger', 1, s, FormDate(m.requested, Today(now))))
                        = [present |-> FormPresent(m.form[s]),
                           total |-> FormTotal(m.form[s])]
        /\ ( /\ Ran("confirm") /\ resp'.code = 200 /\ resp'.user = 1
             /\ BagToSet(ledger) = {Row(1, 1, 1, 2, 2)}
             /\ session[1].data.items = <<Item(1, YmdDate(1), IntField(1), "absent")>> )
           => /\ BagToSet(ledger') = {Row(1, 1, 1, 1, 0)}
              /\ sum_lectures(ledger', 1, 1) = [present |-> 0, total |-> 1] ]_vars

\* C5 witness: a confirm has updated the one row of the ledger, which now
\* is absent in 1 lecture, with sums 0 of 1.
C5_Witness ==
    /\ resp.op = "confirm" /\ resp.code = 200 /\ resp.sql = <<"update">>
    /\ ledger = SetToBag({Row(1, 1, 1, 1, 0)})
    /\ sum_lectures(ledger, 1, 1) = [present |-> 0, total |-> 1]

\* C6 as claimed: applying a batch a second time, at any later time, leaves
\* the ledger as the first application left it.
C6_ReplayAnyTime ==
    \A b \in LedgerBatches : \A t2 \in {now, now + 399, now + 400, now + 86400} :
        LET once == Confirmed(ledger, 1, b, now)
        IN  Confirmed(once, 1, b, t2) = once

\* Every edit carries a date that parses and is not after the day `today`.
DatedBy(items, today) ==
    \A i \in 1..Len(items) :
        items[i].date.tag = "ymd" /\ items[i].date.val <= today

\* C6, amended: applying a batch a second time leaves the ledger as the
\* first application left it when both applications are made on the same
\* day, or when every edit carries a valid date not after the day of the
\* first.
C6_ReplaySameDay ==
    \A b \in LedgerBatches : \A t2 \in {now, now + 399, now + 400, now + 86400} :
        Today(t2) = Today(now) \/ DatedBy(b, Today(now)) =>
            LET once == Confirmed(ledger, 1, b, now)
            IN  Confirmed(once, 1, b, t2) = once

\* C6 witness: a confirm has written again the row of an edit whose future
\* date was replaced by today, and the ledger is what a further application
\* of that edit gives.
C6_Witness ==
    /\ resp.op = "confirm" /\ resp.code = 200 /\ resp.sql = <<"update">>
    /\ rows_for(ledger, 1, 1, Today(now))
         = {Row(1, 1, Today(now), LECTURES_MAX, LECTURES_MAX)}
    /\ Today(now) < 2
    /\ Confirmed(ledger, 1, <<Item(1, YmdDate(2), IntField(MaxLectures), "present")>>, now)
         = ledger

\* C7 as claimed: every row has lectures_total >= 0 and
\* 0 <= lectures_present <= lectures_total.
C7_EntryRanges ==
    \A r \in BagToSet(ledger) :
        r.total >= 0 /\ 0 <= r.present /\ r.present <= r.total

\* C8: no row has lectures_total = 0: a direct-edit save with a count of 0
\* for a subject leaves no row for that key, and no step leaves a row with
\* lectures_total = 0.
C8_NoZeroRows ==
    [][ /\ \A r \in BagToSet(ledger') : r.total # 0
        /\ \A m \in LedgerMarks :
             MarkAttendance(1, m.requested, m.form, TRUE) =>
               \A s \in Subjects :
                 FormTotal(m.form[s]) = 0 =>
                   rows_for(ledger', 1, s, FormDate(m.requested, Today(now))) = {} ]_vars

\* C8 witness: a direct-edit save has deleted a row.
C8_Witness ==
    /\ resp.op = "mark" /\ resp.why = "saved"
    /\ \E i \in 1..Len(resp.sql) : resp.sql[i] = "delete"

(***************************************************************************)
(* SpecRate: the rate limiter of user 1 around the instants at which       *)
(* recorded timestamps become 24 hours old.                                *)
(***************************************************************************)
\* One second short of 24 hours after the first instant, 24 hours after the
\* timestamps recorded before it, and 24 hours after the first instant.
RateInstants == {258798, 258799, 258800}

NextRate ==
    \/ \E t \in RateInstants : Tick(t)
    \/ CheckRateLimit(1)

SpecRate == Init /\ [][NextRate]_vars

\* The accepted calls of user u that are less than 24 hours old at time t.
AcceptedIn(u, t) ==
    Cardinality({i \in 1..Len(accepted[u]) :
                    accepted[u][i] <= t /\ t - accepted[u][i] < 86400})

\* C9: at most 20 calls of check_rate_limit are accepted for a user in any
\* trailing 24-hour window (the calls less than 24 hours old at the end of
\* the window), and a call made when 20 accepted calls are less than 24
\* hours old returns (False, 0) and is not recorded.
C9_AtMostTwentyPerWindow ==
    [][ /\ \A u \in Users : \A t \in RateInstants \cup {now'} :
              AcceptedIn(u, t)' <= 20
        /\ \A u \in Users :
              Ran("check") /\ resp'.user = u /\ AcceptedIn(u, now) >= 20 =>
                  /\ resp'.code = 429 /\ resp'.remaining = 0
                  /\ accepted' = accepted ]_vars

\* C9 witness: a call was rejected with 20 accepted calls in the window.
C9_Witness ==
    /\ resp.op = "check" /\ resp.code = 429 /\ resp.remaining = 0
    /\ AcceptedIn(1, now) = 20

\* C10: capacity comes back with time alone: a call made when fewer than 20
\* accepted calls are less than 24 hours old is accepted, whatever was
\* rejected before, and reports 20 less the calls still in the window and
\* itself, so each call that has left the window has freed one slot.
C10_CapacityRestored ==
    [][ \A u \in Users :
          /\ Ran("check") /\ resp'.user = u /\ AcceptedIn(u, now) < 20 =>
                /\ resp'.code = 200
                /\ resp'.remaining = 20 - AcceptedIn(u, now) - 1
                /\ accepted'[u] = Append(accepted[u], now)
          /\ Ran("tick") /\ resp.op = "check" /\ resp.code = 429 /\ resp.user = u =>
                check_rate_limit(chat_rate_limits'[u], now').allowed
                    = (AcceptedIn(u, now') < 20) ]_vars

\* C10 witness: a user who has had more than 20 calls accepted is accepted
\* again after the timestamps recorded before the first instant have left
\* the window, and only those.
C10_Witness ==
    /\ resp.op = "check" /\ resp.code = 200
    /\ Len(accepted[1]) > 20
    /\ now = 258799
    /\ AcceptedIn(1, now) = FreeChats + 1
    /\ resp.remaining = 20 - FreeChats - 1

(***************************************************************************)
(* SpecTxn: two requests of user 1 in flight at once.  A handler first     *)
(* runs its queries and issues its statements against what it read, and    *)
(* the store applies them when the handler commits.                        *)
(***************************************************************************)
\* mark_attendance of request r up to its commit.
MarkAttendanceBegin(r, u, requested, form) ==
    /\ ~txn[r].busy
    /\ txn' = [txn EXCEPT ![r] =
                  Busy("mark", u, mark_work(ledger, u, requested, form, Today(now)))]
    /\ resp' = Resp("begin", u, 0, "", 0, 0)
    /\ UNCHANGED <<now, users, ledger, chat_rate_limits, session, accepted>>

\* confirm_attendance of request r, with a pending proposal that has not
\* expired, up to its commit.
ConfirmAttendanceBegin(r, u) ==
    /\ ~txn[r].busy
    /\ session[u].has /\ ~expired(session[u], now)
    /\ txn' = [txn EXCEPT ![r] =
                  Busy("confirm", u,
                       confirm_work(ledger, u, session[u].data, Today(now)))]
    /\ resp' = Resp("begin", u, 0, "", 0, 0)
    /\ UNCHANGED <<now, users, ledger, chat_rate_limits, session, accepted>>

\* The commit of request r and the rest of its handler; the response
\* records the statements of the unit of work, committed or rolled back.
TxnCommit(r) ==
    LET t == txn[r]
        c == commit_or_rollback(ledger, Work(t.ok, ledger, t.ops, t.n), TRUE)
    IN  /\ t.busy
        /\ ledger' = c.L
        /\ txn' = [txn EXCEPT ![r] = Idle]
        /\ session' = IF t.op = "confirm" /\ c.ok
                      THEN [session EXCEPT ![t.user] = NoPending]
                      ELSE session
        /\ resp' = CASE t.op = "mark" /\ c.ok ->
                          RespSql("mark", t.user, 302, "saved", 0, 0, Kinds(t.ops))
                     [] t.op = "mark" /\ ~c.ok ->
                          RespSql("mark", t.user, 200, "failed", 0, 0, Kinds(t.ops))
                     [] t.op = "confirm" /\ c.ok ->
                          RespSql("confirm", t.user, 200, "marked", t.n, 0, Kinds(t.ops))
                     [] OTHER ->
                          RespSql("confirm", t.user, 500, "failed", 0, 0, Kinds(t.ops))
        /\ UNCHANGED <<now, users, chat_rate_limits, accepted>>

TxnForms ==
    { [s \in Subjects |->
         IF s = 1 THEN [lectures |-> IntField(l), status |-> st]
                  ELSE [lectures |-> NoField, status |-> "present"]]
      : l \in {0, 3}, st \in {"present", "absent"} }

TxnOracle ==
    { Says(PreviewReply(<<Item(1, YmdDate(1), IntField(2), "present")>>)),
      Says(PreviewReply(<<Item(1, YmdDate(1), IntField(1), "absent"),
                          Item(2, BadDate, IntField(2), "present")>>)) }

NextTxn ==
    \/ \E r \in Reqs : \E f \in TxnForms : MarkAttendanceBegin(r, 1, NoField, f)
    \/ \E r \in Reqs : ConfirmAttendanceBegin(r, 1)
    \/ \E r \in Reqs : TxnCommit(r)
    \/ \E o \in TxnOracle : ChatApi(1, TRUE, 1, o)

SpecTxn == Init /\ [][NextTxn]_vars

\* C1: whatever direct-edit saves and confirms have run, one after another
\* or interleaved, the ledger holds at most one row for each
\* (user, subject, date).
C1_OneEntryPerKey ==
    \A r \in BagToSet(ledger) :
        /\ CopiesIn(r, ledger) <= 1
        /\ \A q \in BagToSet(ledger) :
              (r.user = q.user /\ r.subject = q.subject /\ r.date = q.date) => q = r

\* C1 witness: a request that found no row for a key and issued an INSERT
\* for it has failed at its commit, the key having been written by another
\* request in the meantime.
C1_Witness ==
    /\ resp.why = "failed" /\ resp.sql = <<"insert">>
    /\ Cardinality(rows_for(ledger, 1, 1, Today(now))) = 1

(***************************************************************************)
(* SpecRace: calls of check_rate_limit by concurrent requests of user 1,   *)
(* statement by statement.  The function takes no lock, so the statements  *)
(* of two calls interleave in any order.                                   *)
(***************************************************************************)
\* A call in flight: the statement it is at (pc), its local `now` (t), and
\* the list its comprehension has built (kept).
RateCall(u, pc, t, kept) ==
    [busy |-> TRUE, op |-> "check", user |-> u, pc |-> pc, t |-> t, kept |-> kept]

\* Calls are followed until this many have been accepted for a user.
MaxAccepted == 21

\* now = time.time(); the list comprehension is evaluated.
RateFilter(r, u) ==
    /\ ~txn[r].busy
    /\ Len(accepted[u]) < MaxAccepted
    /\ txn' = [txn EXCEPT ![r] =
                  RateCall(u, "store", now,
                           SelectSeq(chat_rate_limits[u], LAMBDA x : InWindow(now, x)))]
    /\ resp' = Resp("begin", u, 0, "", 0, 0)
    /\ UNCHANGED <<now, users, ledger, chat_rate_limits, session, accepted>>

\* chat_rate_limits[user_id] = [...]
RateStore(r) ==
    /\ txn[r].busy /\ txn[r].op = "check" /\ txn[r].pc = "store"
    /\ chat_rate_limits' = [chat_rate_limits EXCEPT ![txn[r].user] = txn[r].kept]
    /\ txn' = [txn EXCEPT ![r].pc = "test"]
    /\ resp' = Resp("step", txn[r].user, 0, "", 0, 0)
    /\ UNCHANGED <<now, users, ledger, session, accepted>>

\* if len(chat_rate_limits[user_id]) >= RATE_LIMIT_REQUESTS: return False, 0
RateTest(r) ==
    /\ txn[r].busy /\ txn[r].op = "check" /\ txn[r].pc = "test"
    /\ IF Len(chat_rate_limits[txn[r].user]) >= RATE_LIMIT_REQUESTS
       THEN /\ txn' = [txn EXCEPT ![r] = Idle]
            /\ resp' = Resp("check", txn[r].user, 429, "rate_limit", 0, 0)
       ELSE /\ txn' = [txn EXCEPT ![r].pc = "append"]
            /\ resp' = Resp("step", txn[r].user, 0, "", 0, 0)
    /\ UNCHANGED <<now, users, ledger, chat_rate_limits, session, accepted>>

\* chat_rate_limits[user_id].append(now)
RateAppend(r) ==
    /\ txn[r].busy /\ txn[r].op = "check" /\ txn[r].pc = "append"
    /\ chat_rate_limits' = [chat_rate_limits EXCEPT ![txn[r].user] = Append(@, txn[r].t)]
    /\ txn' = [txn EXCEPT ![r].pc = "return"]
    /\ resp' = Resp("step", txn[r].user, 0, "", 0, 0)
    /\ UNCHANGED <<now, users, ledger, session, accepted>>

\* return True, RATE_LIMIT_REQUESTS - len(chat_rate_limits[user_id])
RateReturn(r) ==
    /\ txn[r].busy /\ txn[r].op = "check" /\ txn[r].pc = "return"
    /\ accepted' = [accepted EXCEPT ![txn[r].user] = Append(@, txn[r].t)]
    /\ txn' = [txn EXCEPT ![r] = Idle]
    /\ resp' = Resp("check", txn[r].user, 200, "allowed", 0,
                    RATE_LIMIT_REQUESTS - Len(chat_rate_limits[txn[r].user]))
    /\ UNCHANGED <<now, users, ledger, chat_rate_limits, session>>

\* One second after the first instant.
RaceInstants == {172401}

NextRace ==
    \/ \E t \in RaceInstants : Tick(t)
    \/ \E r \in Reqs : RateFilter(r, 1)
    \/ \E r \in Reqs : RateStore(r)
    \/ \E r \in Reqs : RateTest(r)
    \/ \E r \in Reqs : RateAppend(r)
    \/ \E r \in Reqs : RateReturn(r)

SpecRace == Init /\ [][NextRace]_vars

\* How often the stamp x is in the list q.
Occurrences(q, x) == Cardinality({i \in 1..Len(q) : q[i] = x})

\* C11 as claimed: with concurrent chat turns of one user, once the calls
\* have returned every accepted request has exactly one timestamp in the
\* user's list, and at most 20 requests were accepted in the window.
C11_WindowIntact ==
    (\A r \in Reqs : ~txn[r].busy) =>
        \A u \in Users :
            /\ \A x \in {accepted[u][i] : i \in 1..Len(accepted[u])} :
                  InWindow(now, x) =>
                      Occurrences(chat_rate_limits[u], x) = Occurrences(accepted[u], x)
            /\ AcceptedIn(u, now) <= 20

(***************************************************************************)
(* SpecSession: a chat turn and a confirm of user 1 in flight at once.     *)
(* flask.session is the signed cookie of the request: a handler works on   *)
(* the copy its request carried, and a response whose handler changed the  *)
(* session replaces the cookie the client holds.  `session` is the cookie  *)
(* held by the client.                                                     *)
(***************************************************************************)
\* A request in flight: the pending proposal its cookie carried, and for a
\* chat turn what parse_ai_response made of the oracle's reply.
SessCall(op, u, carried, parsed) ==
    [busy |-> TRUE, op |-> op, user |-> u, carried |-> carried, parsed |-> parsed]

\* chat_api of request r up to the oracle's reply.
ChatApiBegin(r, u, oracle) ==
    LET rl == check_rate_limit(chat_rate_limits[u], now)
    IN  /\ ~txn[r].busy
        /\ oracle.ok /\ ~parse_ai_response(oracle.text).raised
        /\ RateAfter(u, rl)
        /\ IF rl.allowed
           THEN /\ txn' = [txn EXCEPT ![r] =
                              SessCall("chat", u, session[u],
                                       parse_ai_response(oracle.text))]
                /\ resp' = Resp("begin", u, 0, "", 0, rl.remaining)
           ELSE /\ resp' = Resp("chat", u, 429, "rate_limit", 0, 0)
                /\ UNCHANGED txn
        /\ UNCHANGED <<now, users, ledger, session>>

\* The rest of chat_api of request r: a preview is stored in the session
\* and the response carries the new cookie.
ChatApiEnd(r) ==
    LET t == txn[r]
    IN  /\ t.busy /\ t.op = "chat"
        /\ IF t.parsed.has_action /\ t.parsed.action = "preview_attendance"
           THEN /\ session' = [session EXCEPT ![t.user] = Pending(t.parsed.data, now)]
                /\ resp' = Resp("chat", t.user, 200, "preview", 0, 0)
           ELSE /\ resp' = Resp("chat", t.user, 200,
                                IF t.parsed.has_action THEN "action" ELSE "message", 0, 0)
                /\ UNCHANGED session
        /\ txn' = [txn EXCEPT ![r] = Idle]
        /\ UNCHANGED <<now, users, ledger, chat_rate_limits, accepted>>

\* confirm_attendance of request r past its two early returns.
ConfirmAttendanceRead(r, u) ==
    /\ ~txn[r].busy
    /\ session[u].has /\ ~expired(session[u], now)
    /\ txn' = [txn EXCEPT ![r] = SessCall("confirm", u, session[u], NoAction(<<>>))]
    /\ resp' = Resp("begin", u, 0, "", 0, 0)
    /\ UNCHANGED <<now, users, ledger, chat_rate_limits, session, accepted>>

\* The rest of confirm_attendance of request r, on the proposal its cookie
\* carried.
ConfirmAttendanceWrite(r) ==
    LET t == txn[r]
        w == confirm_work(ledger, t.user, t.carried.data, Today(now))
        c == commit_or_rollback(ledger, w, TRUE)
    IN  /\ t.busy /\ t.op = "confirm"
        /\ ledger' = c.L
        /\ IF c.ok
           THEN /\ session' = [session EXCEPT ![t.user] = NoPending]
                /\ resp' = RespSql("confirm", t.user, 200, "marked", w.n, 0, Kinds(w.ops))
           ELSE /\ resp' = Resp("confirm", t.user, 500, "failed", 0, 0)
                /\ UNCHANGED session
        /\ txn' = [txn EXCEPT ![r] = Idle]
        /\ UNCHANGED <<now, users, chat_rate_limits, accepted>>

SessionOracle ==
    { Says(PreviewReply(<<Item(1, YmdDate(1), IntField(2), "present")>>)),
      Says(PreviewReply(<<Item(2, YmdDate(1), IntField(1), "absent")>>)),
      Says(<<Tok("word")>>) }

\* One second after the first instant.
SessionInstants == {172401}

NextSession ==
    \/ \E t \in SessionInstants : Tick(t)
    \/ \E r \in Reqs : \E o \in SessionOracle : ChatApiBegin(r, 1, o)
    \/ \E r \in Reqs : ChatApiEnd(r)
    \/ \E r \in Reqs : ConfirmAttendanceRead(r, 1)
    \/ \E r \in Reqs : ConfirmAttendanceWrite(r)

SpecSession == Init /\ [][NextSession]_vars

\* C12 as claimed: a confirm that commits while a chat turn stores a new
\* proposal commits the proposal that is pending when it commits, so that
\* the outcome is one of the two serial orders: no stored proposal is lost
\* and no replaced proposal is committed.
C12_ConfirmChatSerial ==
    [][ \A r \in Reqs :
          ( /\ txn[r].busy /\ txn[r].op = "confirm"
            /\ ~txn'[r].busy /\ resp'.code = 200 )
          => session[txn[r].user] = txn[r].carried ]_vars

\* C13 as claimed: every confirm, whether it commits, finds no valid
\* proposal or fails, leaves the session without a pending proposal.
C13_ConfirmEndsNone ==
    [][ Ran("confirm") => ~session'[resp'.user].has ]_vars

\* C14: a session holds one pending proposal at most, and a chat turn that
\* yields a preview replaces it: afterwards the pending edits are exactly
\* the edits of the new proposal, stamped with the time of the turn,
\* whatever was pending before.
C14_NewProposalReplaces ==
    [][ /\ Ran("chat") /\ resp'.why = "preview" =>
             \A b \in LedgerBatches :
                 ChatApi(1, TRUE, 1, Says(PreviewReply(b))) =>
                     session'[1] = [has |-> TRUE, data |-> ListData(b), timestamp |-> now]
        /\ \A u \in Users :
             Ran("chat") /\ resp'.why # "preview" => session'[u] = session[u] ]_vars

\* C14 witness: the second chat turn of the user, at a later instant than
\* the first, has stored a proposal of one edit, stamped with that instant.
C14_Witness ==
    /\ resp.op = "chat" /\ resp.why = "preview"
    /\ session[1].has /\ session[1].timestamp = now /\ now > 172400
    /\ session[1].data = ListData(<<Item(1, YmdDate(1), IntField(1), "absent")>>)
    /\ Len(accepted[1]) = RATE_LIMIT_REQUESTS

\* C15: cancel is unconditional: whatever the session holds, a cancel is
\* answered with success, leaves the session without a pending proposal,
\* and changes neither the ledger nor the rate-limit lists nor another
\* user's session.
C15_CancelUnconditional ==
    [][ /\ ENABLED CancelAttendance(1)
        /\ Ran("cancel") =>
             /\ resp'.code = 200 /\ resp'.why = "cancelled"
             /\ ~session'[resp'.user].has
             /\ \A u \in Users \ {resp'.user} : session'[u] = session[u]
             /\ ledger' = ledger
             /\ chat_rate_limits' = chat_rate_limits ]_vars

\* C15 witness: a cancel has been answered after the last instant, when
\* any proposal stored earlier had expired, with rows in the ledger.
C15_Witness ==
    /\ resp.op = "cancel" /\ resp.code = 200
    /\ ~session[1].has
    /\ now = 172701 /\ Len(accepted[1]) > RATE_LIMIT_REQUESTS - FreeChats
    /\ ledger # EmptyBag

\* C16: a confirm in a session without a pending proposal answers 400 and
\* leaves the ledger and the session as they were.
C16_ConfirmWithoutProposal ==
    [][ \A u \in Users :
          Ran("confirm") /\ resp'.user = u /\ ~session[u].has =>
              /\ resp'.code = 400 /\ resp'.why = "none"
              /\ ledger' = ledger
              /\ session' = session ]_vars

\* C16 witness: a confirm has been answered that no proposal is pending,
\* with rows in the ledger.
C16_Witness ==
    /\ resp.op = "confirm" /\ resp.code = 400 /\ resp.why = "none"
    /\ ~session[1].has
    /\ ledger # EmptyBag

(***************************************************************************)
(* SpecConfirm: confirms of proposals whose edits name unknown subjects,   *)
(* carry odd statuses, or lecture counts outside 1..3.                     *)
(***************************************************************************)
ConfirmBatches ==
    { <<Item(9, YmdDate(1), IntField(1), "present")>>,
      <<Item(9, YmdDate(1), IntField(1), "present"),
        Item(1, YmdDate(1), IntField(2), "present")>>,
      <<Item(9, BadDate, BadField, "late"),
        Item(1, YmdDate(1), IntField(1), "absent")>>,
      <<Item(1, YmdDate(1), IntField(2), "late")>>,
      <<Item(2, YmdDate(1), IntField(2), "missing")>>,
      <<Item(2, YmdDate(1), IntField(3), "absent")>>,
      <<Item(1, YmdDate(0), IntField(0), "present")>>,
      <<Item(1, YmdDate(0), IntField(-1), "absent")>>,
      <<Item(2, YmdDate(0), IntField(MaxLectures), "present")>>,
      <<Item(2, YmdDate(0), NoField, "present"),
        Item(1, YmdDate(1), BadField, "present")>>,
      <<Item(1, BadDate, NoField, "missing")>> }

ConfirmRequests ==
    {ChatRequest(TRUE, 1, Says(PreviewReply(b))) : b \in ConfirmBatches}

NextConfirm ==
    \/ \E rq \in ConfirmRequests :
          ChatApi(1, rq.available, rq.message_len, rq.oracle)
    \/ \E db_ok \in BOOLEAN : ConfirmAttendance(1, db_ok)

SpecConfirm == Init /\ [][NextConfirm]_vars

\* C17: in a confirm an edit whose subject does not exist is skipped and
\* the batch goes on: when no edit of an existing subject has a count int()
\* rejects and the store accepts the commit, the confirm succeeds, every
\* other edit is in the ledger, no row names an unknown subject, and the
\* count reported is the number of edits whose subject exists.
C17_UnknownSubjectSkipped ==
    [][ LET p == session[1]
            items == p.data.items
        IN  ( /\ p.has /\ now - p.timestamp <= 300 /\ p.data.tag = "list"
              /\ \A i \in 1..Len(items) :
                    items[i].subject_id \in Subjects => items[i].lectures.tag # "bad"
              /\ ConfirmAttendance(1, TRUE) )
            => /\ resp'.code = 200
               /\ resp'.marked =
                    Cardinality({i \in 1..Len(items) : items[i].subject_id \in Subjects})
               /\ AllApplied(ledger, ledger', 1, items, Today(now))
               /\ \A r \in BagToSet(ledger') : r.subject \in Subjects ]_vars

\* C17 witness: a confirm has reported one edit applied and inserted the
\* row of an edit that is proposed only behind an edit of an unknown
\* subject.
C17_Witness ==
    /\ resp.op = "confirm" /\ resp.code = 200 /\ resp.marked = 1
    /\ resp.sql = <<"insert">>
    /\ ledger = SetToBag({Row(1, 1, 1, 1, 0)})

\* The edits of a batch that name a subject that exists and are not
\* followed by another edit of the batch for the same key.
LastForKey(items, today) ==
    {i \in Surviving(items) :
        \A j \in Surviving(items) :
            ( /\ items[j].subject_id = items[i].subject_id
              /\ EditDate(items[j], today) = EditDate(items[i], today) ) => j <= i}

\* C18 as claimed: after a successful confirm the row of an edit with
\* status "absent" has lectures_present = 0, and the row of an edit with
\* any other status, or none, has lectures_present = lectures_total.
C18_OddStatusIsPresent ==
    [][ Ran("confirm") /\ resp'.code = 200 =>
          LET items == session[resp'.user].data.items
          IN  \A i \in LastForKey(items, Today(now)) :
                \A r \in rows_for(ledger', resp'.user, items[i].subject_id,
                                  EditDate(items[i], Today(now))) :
                    r.present = IF items[i].status = "absent" THEN 0 ELSE r.total ]_vars

\* C20: every row a confirm writes has lectures_total in 1..3: a proposed
\* count below 1 is stored as 1, one above 3 as 3, a missing one as 1, and
\* one in the range as it is.
C20_ConfirmClampsCount ==
    [][ Ran("confirm") /\ resp'.code = 200 =>
          LET items == session[resp'.user].data.items
          IN  /\ \A i \in LastForKey(items, Today(now)) :
                    LET rows == rows_for(ledger', resp'.user, items[i].subject_id,
                                         EditDate(items[i], Today(now)))
                        l == items[i].lectures
                    IN  /\ rows # {}
                        /\ \A r \in rows :
                              r.total = IF l.tag = "missing" THEN 1
                                        ELSE IF l.val < 1 THEN 1
                                        ELSE IF l.val > 3 THEN 3
                                        ELSE l.val
              /\ \A r \in BagToSet(ledger') :
                    CopiesIn(r, ledger') > CopiesIn(r, ledger) => r.total \in 1..3 ]_vars

\* C20 witness: a confirm has stored 3 lectures for the edit that proposed
\* a count above the range.
C20_Witness ==
    /\ resp.op = "confirm" /\ resp.code = 200
    /\ rows_for(ledger, 1, 2, 0) = {Row(1, 2, 0, 3, 3)}
    /\ MaxLectures > 3

\* C19: no row carries a date after the current day: a confirm and a
\* direct-edit save write a future date as today, and the clock does not
\* go back.
C19_NoFutureDate ==
    [][ /\ \A r \in BagToSet(ledger') : r.date <= Today(now')
        /\ \A r \in BagToSet(ledger') :
              CopiesIn(r, ledger') > CopiesIn(r, ledger) => r.date <= Today(now)
        /\ now' >= now ]_vars

\* C19 witness: on day 1 a direct-edit save for day 2 has been written to
\* day 1.
C19_Witness ==
    /\ resp.op = "mark" /\ resp.why = "saved"
    /\ Today(now) = 1
    /\ rows_for(ledger, 1, 1, 1) = {Row(1, 1, 1, MaxLectures, 0)}
    /\ rows_for(ledger, 1, 1, 2) = {}

(***************************************************************************)
(* SpecParse: parse_ai_response applied to every text of a few tokens.     *)
(***************************************************************************)
\* The longest text parsed, in tokens.
MaxTokens == 3

ParseTokens ==
    { Tok("fence_json"), Tok("fence"), Tok("space"), Tok("word"),
      JsonTok(JsonNonObj),
      JsonTok(JsonObj("absent", NoData, FALSE)),
      JsonTok(JsonObj("summary", NoData, TRUE)),
      JsonTok(JsonObj("preview_attendance", JunkData, FALSE)),
      JsonTok(JsonObj("preview_attendance", ListData(<<>>), TRUE)) }
    \cup { JsonTok(JsonObj("preview_attendance", ListData(b), FALSE)) :
             b \in { <<Item(1, YmdDate(1), IntField(2), "present")>>,
                     <<Item(1, YmdDate(1), IntField(2), "present"),
                       Item(2, BadDate, BadField, "absent")>>,
                     <<Item(2, BadDate, BadField, "absent"),
                       Item(1, YmdDate(1), IntField(2), "present")>> } }

\* A call parse_ai_response(text): the response is what the caller gets.
ParseAiResponse(text) ==
    /\ resp' = [op |-> "parse", text |-> text, parsed |-> parse_ai_response(text)]
    /\ UNCHANGED <<now, users, ledger, chat_rate_limits, session, accepted, txn>>

\* The texts are parsed in the order of their length, each one the
\* text parsed before with one more token.
NextParse ==
    \E tok \in ParseTokens :
        LET text == IF resp.op = "parse" THEN resp.text ELSE <<>>
        IN  Len(text) < MaxTokens /\ ParseAiResponse(Append(text, tok))

SpecParse == Init /\ [][NextParse]_vars

\* C21 as claimed: parse_ai_response raises nothing, and whenever it
\* extracts no action it returns has_action = false with the whole text as
\* the message.
C21_ParserNeverRaises ==
    resp.op = "parse" =>
        /\ ~resp.parsed.raised
        /\ ~resp.parsed.has_action => resp.parsed.message = resp.text

\* C22 as claimed: parse_ai_response returns has_action = true only for a
\* block that is an object with the action "preview_attendance" and a list
\* of items as its data.
C22_PreviewOnlyForProposal ==
    resp.op = "parse" /\ ~resp.parsed.raised /\ resp.parsed.has_action =>
        /\ resp.parsed.action = "preview_attendance"
        /\ \E i \in 1..Len(resp.text) :
              /\ resp.text[i].t = "json" /\ resp.text[i].j.k = "obj"
              /\ resp.text[i].j.action = "preview_attendance"
              /\ resp.text[i].j.data.tag = "list"
              /\ resp.parsed.data = resp.text[i].j.data

\* The text holds one fenced block, and the block is the JSON document j
\* with nothing but white space around it.
OneFencedBlock(text, j) ==
    \E o \in 1..Len(text) : \E c \in 1..Len(text) :
        /\ o < c
        /\ text[o].t = "fence_json" /\ text[c].t = "fence"
        /\ \A i \in 1..Len(text) :
              text[i].t \in {"fence_json", "fence"} => i \in {o, c}
        /\ \E k \in (o + 1)..(c - 1) :
              /\ text[k] = JsonTok(j)
              /\ \A i \in ((o + 1)..(c - 1)) \ {k} : text[i].t = "space"

\* C23: for a text with one well-formed fenced block whose object has the
\* action "preview_attendance" and a list of n items, parse_ai_response
\* returns has_action = true with those n items in their order; for a text
\* without a fenced JSON block it returns has_action = false.
C23_PreviewItemsKept ==
    resp.op = "parse" =>
        /\ \A i \in 1..Len(resp.text) :
              LET j == resp.text[i].j
              IN  ( /\ resp.text[i].t = "json" /\ j.k = "obj"
                    /\ j.action = "preview_attendance" /\ j.data.tag = "list"
                    /\ OneFencedBlock(resp.text, j) )
                  => /\ ~resp.parsed.raised /\ resp.parsed.has_action
                     /\ resp.parsed.action = "preview_attendance"
                     /\ resp.parsed.data.items = j.data.items
        /\ (\A i \in 1..Len(resp.text) : resp.text[i].t # "fence_json")
              => ~resp.parsed.raised /\ ~resp.parsed.has_action

\* C23 witness: a fenced block with two items has been parsed to a proposal
\* of these two items, the edit of subject 2 first.
C23_Witness ==
    /\ resp.op = "parse" /\ resp.parsed.has_action
    /\ Len(resp.text) = 3 /\ resp.text[1].t = "fence_json" /\ resp.text[3].t = "fence"
    /\ resp.parsed.data.items =
         <<Item(2, BadDate, BadField, "absent"),
           Item(1, YmdDate(1), IntField(2), "present")>>

(***************************************************************************)
(* SpecChat: chat turns of user 1 with every combination of the client's   *)
(* availability, the message's length and the oracle's behaviour.          *)
(***************************************************************************)
ChatInputs ==
    { ChatRequest(available, message_len, oracle) :
        available \in BOOLEAN,
        message_len \in {0, 1, MESSAGE_MAX, MESSAGE_MAX + 1},
        oracle \in { OracleFails, Says(<<Tok("word")>>),
                     Says(FencedReply(JsonNonObj)),
                     Says(PreviewReply(<<Item(1, YmdDate(1), IntField(2), "present")>>)),
                     Says(PreviewReply(<<Item(2, BadDate, IntField(1), "absent")>>)) } }

NextChat ==
    \/ \E t \in ProtocolInstants : Tick(t)
    \/ \E rq \in ChatInputs : ChatApi(1, rq.available, rq.message_len, rq.oracle)
    \/ CancelAttendance(1)

SpecChat == Init /\ [][NextChat]_vars

\* The stamps of the list q that are less than 24 hours old at time t.
Live(q, t) == SelectSeq(q, LAMBDA x : t - x < 86400)

\* C24: the slot of a chat turn is taken at the gate and never given back:
\* every chat turn that is not answered 429 leaves the user's list with
\* the timestamps it held in the window and one more, the time of the
\* turn, whatever the turn then answers; a turn answered 429 adds none.
C24_SlotNeverRefunded ==
    [][ Ran("chat") =>
          LET u == resp'.user
          IN  IF resp'.code = 429
              THEN chat_rate_limits'[u] = Live(chat_rate_limits[u], now)
              ELSE chat_rate_limits'[u] = Append(Live(chat_rate_limits[u], now), now) ]_vars

\* C24 witness: a chat turn answered 503 is the newest timestamp of the
\* user's list, which holds one more than before the first turn.
C24_Witness ==
    /\ resp.op = "chat" /\ resp.code = 503
    /\ Len(chat_rate_limits[1]) = RATE_LIMIT_REQUESTS - FreeChats + 1
    /\ chat_rate_limits[1][Len(chat_rate_limits[1])] = now

\* C27 as claimed: a chat turn past the gate whose oracle is unavailable,
\* or whose call to the oracle fails, is answered 503 and stores no
\* proposal.
C27_OracleFailureIs503 ==
    [][ Ran("chat") =>
          \A rq \in ChatInputs :
              ( /\ ~rq.available \/ (~rq.oracle.ok /\ rq.message_len \in 1..500)
                /\ ChatApi(1, rq.available, rq.message_len, rq.oracle)
                /\ resp'.code # 429 )
              => resp'.code = 503 /\ session' = session ]_vars

\* C27, amended: a chat turn past the gate is answered 503 when the client
\* is unavailable, whatever the message, and 500 when the client is
\* available, the message is valid and the call to the oracle fails; in
\* both cases the pending proposal is as it was.
C27_UnavailableOrError ==
    [][ Ran("chat") =>
          \A rq \in ChatInputs :
              ( /\ ChatApi(1, rq.available, rq.message_len, rq.oracle)
                /\ resp'.code # 429 )
              => /\ ~rq.available => resp'.code = 503 /\ session' = session
                 /\ (rq.available /\ ~rq.oracle.ok /\ rq.message_len \in 1..500)
                       => resp'.code = 500 /\ session' = session ]_vars

\* C27 witness: a chat turn has been answered 500 with a proposal pending
\* from an earlier turn.
C27_Witness ==
    /\ resp.op = "chat" /\ resp.code = 500
    /\ session[1].has /\ session[1].timestamp < now

\* C28 as claimed: a chat turn past the gate whose message is empty or
\* longer than 500 characters is answered 400, whatever the client's
\* availability, and leaves the pending proposal as it was; a message of
\* 500 characters is not answered 400.
C28_BadMessageIs400 ==
    [][ Ran("chat") =>
          \A rq \in ChatInputs :
              ( /\ ChatApi(1, rq.available, rq.message_len, rq.oracle)
                /\ resp'.code # 429 )
              => /\ (rq.message_len = 0 \/ rq.message_len > 500)
                       => resp'.code = 400 /\ session' = session
                 /\ rq.message_len = 500 => resp'.code # 400 ]_vars

\* C28, amended: with the client available, a chat turn past the gate
\* whose message is empty or longer than 500 characters is answered 400,
\* the same whatever the oracle would do, and leaves the pending proposal
\* as it was; a message of 500 characters is not answered 400.  With the
\* client unavailable the turn is answered 503 whatever the message.
C28_BadMessageIs400IfAvailable ==
    [][ Ran("chat") =>
          \A rq \in ChatInputs :
              ( /\ ChatApi(1, rq.available, rq.message_len, rq.oracle)
                /\ resp'.code # 429 )
              => /\ (rq.available /\ (rq.message_len = 0 \/ rq.message_len > 500))
                       => resp'.code = 400 /\ session' = session
                 /\ (rq.available /\ rq.message_len = 500) => resp'.code # 400
                 /\ ~rq.available => resp'.code = 503 ]_vars

\* C28 witness: a chat turn has been answered 400 with a proposal pending
\* from an earlier turn.
C28_Witness ==
    /\ resp.op = "chat" /\ resp.code = 400
    /\ session[1].has /\ session[1].timestamp < now

\* C25: an accepted call of check_rate_limit records the current time and
\* returns (True, 20 - count), count being the timestamps in the window
\* with the one just recorded, so that the k-th call accepted in a fresh
\* window returns 20 - k; a call made with 20 timestamps in the window
\* returns (False, 0) and records nothing.
C25_RemainingAfterRecording ==
    [][ Ran("check") =>
          LET u == resp'.user
              held == Live(chat_rate_limits[u], now)
          IN  IF Len(held) >= 20
              THEN /\ resp'.code = 429 /\ resp'.remaining = 0
                   /\ chat_rate_limits'[u] = held
              ELSE /\ resp'.code = 200
                   /\ chat_rate_limits'[u] = Append(held, now)
                   /\ resp'.remaining = 20 - Len(chat_rate_limits'[u])
                   /\ Len(held) = Occurrences(held, now) =>
                        resp'.remaining = 20 - (Occurrences(held, now) + 1) ]_vars

\* C25 witness: the second call accepted in a fresh window has returned 18.
C25_Witness ==
    /\ resp.op = "check" /\ resp.code = 200 /\ resp.remaining = 18
    /\ chat_rate_limits[1] = <<now, now>>
    /\ Len(accepted[1]) > 2

\* C26: after a call of check_rate_limit, accepted or rejected, the user's
\* list holds no timestamp older than 24 hours at the time of the call,
\* and 20 timestamps at most.
C26_ListFreshAndBounded ==
    [][ Ran("check") =>
          LET q == chat_rate_limits'[resp'.user]
          IN  /\ \A i \in 1..Len(q) : now - q[i] <= 86400
              /\ Len(q) <= 20 ]_vars

\* C26 witness: a call has been rejected, more than 24 hours after the
\* first timestamps were recorded, and none of those is left in the list.
C26_Witness ==
    /\ resp.op = "check" /\ resp.code = 429
    /\ Len(chat_rate_limits[1]) = 20
    /\ \A i \in 1..Len(chat_rate_limits[1]) : chat_rate_limits[1][i] > 172400
    /\ Len(accepted[1]) > 20

(***************************************************************************)
(* Statistics: Subject.get_user_attendance and the weekly figures of       *)
(* cron_weekly_report.  A percentage with one decimal is kept in tenths.   *)
(***************************************************************************)
\* Subject.total_lectures, a column of the subject (40 unless set): subject
\* 1 is a course of 3 lectures.
total_lectures(s) == IF s = 1 THEN 3 ELSE 40

\* round(present / total * 100, 1) in tenths, for total > 0; the quotient
\* lies half way between two tenths only when total is a multiple of 16.
round_percentage(present, total) ==
    LET twice == 2000 * present + total
    IN  IF twice >= 0 THEN twice \div (2 * total) ELSE -((-twice) \div (2 * total))

\* A subject's statistics that let `remaining` go below 0.
get_user_attendance_signed(L, u, s) ==
    LET result == sum_lectures(L, u, s)
    IN  [attended |-> result.present,
         total_marked |-> result.total,
         total_lectures |-> total_lectures(s),
         remaining |-> total_lectures(s) - result.total,
         percentage |-> IF result.total > 0
                        THEN round_percentage(result.present, result.total) ELSE 0]

\* Subject.get_user_attendance(user_id) of subject s on the table L.
get_user_attendance(L, u, s) ==
    LET result == sum_lectures(L, u, s)
        present == result.present
        total == result.total
    IN  [attended |-> present,
         total_marked |-> total,
         total_lectures |-> total_lectures(s),
         remaining |-> Max(0, total_lectures(s) - total),
         percentage |-> IF total > 0 THEN round_percentage(present, total) ELSE 0]

\* A week that leaves out its last day.
weekly_records_open(L, u, start_date, end_date) ==
    {r \in BagToSet(L) : r.user = u /\ r.date >= start_date /\ r.date < end_date}

\* weekly_records of cron_weekly_report: the rows of user u dated from
\* start_date to end_date.
weekly_records(L, u, start_date, end_date) ==
    {r \in BagToSet(L) : r.user = u /\ r.date >= start_date /\ r.date <= end_date}

\* Weekly figures over the seven days that end today.
cron_weekly_report_to_today(L, u, today) ==
    LET end_date == today
        start_date == end_date - 6
        records == weekly_records(L, u, start_date, end_date)
        of(s) == sum_rows(L, {r \in records : r.subject = s})
        all == sum_rows(L, {r \in records : r.subject \in Subjects})
    IN  [start_date |-> start_date, end_date |-> end_date,
         subjects_map |-> [s \in Subjects |->
                             [attended |-> of(s).present, total |-> of(s).total]],
         weekly_present |-> all.present,
         weekly_total |-> all.total,
         weekly_percentage |-> IF all.total <= 0 THEN 0
                               ELSE (all.present * 100) \div all.total]

\* The weekly figures cron_weekly_report computes for user u on the day
\* `today`: the period, subjects_map, weekly_present, weekly_total and
\* weekly_percentage.
cron_weekly_report(L, u, today) ==
    LET end_date == today - 1
        start_date == end_date - 6
        records == weekly_records(L, u, start_date, end_date)
        of(s) == sum_rows(L, {r \in records : r.subject = s})
        all == sum_rows(L, {r \in records : r.subject \in Subjects})
    IN  [start_date |-> start_date, end_date |-> end_date,
         subjects_map |-> [s \in Subjects |->
                             [attended |-> of(s).present, total |-> of(s).total]],
         weekly_present |-> all.present,
         weekly_total |-> all.total,
         weekly_percentage |-> IF all.total <= 0 THEN 0
                               ELSE IF all.present >= 0
                                    THEN (all.present * 100) \div all.total
                                    ELSE -((-all.present * 100) \div all.total)]

\* A read of the statistics of user u in subject s.
GetUserAttendance(u, s) ==
    /\ resp' = [op |-> "stats", user |-> u, subject |-> s,
                stats |-> get_user_attendance(ledger, u, s)]
    /\ UNCHANGED <<now, users, ledger, chat_rate_limits, session, accepted, txn>>

\* A report whose queries flush the statements of the requests in flight
\* into the table.
CronWeeklyReportFlushing ==
    /\ resp' = [op |-> "report",
                weekly |-> [u \in Users |-> cron_weekly_report(ledger, u, Today(now))]]
    /\ ledger' = IF \E r \in Reqs : txn[r].busy /\ apply_ops(ledger, txn[r].ops).ok
                 THEN LET r == CHOOSE q \in Reqs :
                                  txn[q].busy /\ apply_ops(ledger, txn[q].ops).ok
                      IN  apply_ops(ledger, txn[r].ops).L
                 ELSE ledger
    /\ UNCHANGED <<now, users, chat_rate_limits, session, accepted, txn>>

\* GET /api/cron/weekly-report: the figures of every user.
CronWeeklyReport ==
    /\ resp' = [op |-> "report",
                weekly |-> [u \in Users |-> cron_weekly_report(ledger, u, Today(now))]]
    /\ UNCHANGED <<now, users, ledger, chat_rate_limits, session, accepted, txn>>

(***************************************************************************)
(* SpecStats: direct edits on days 1, 2, 8 and 9, and the statistics read  *)
(* in between.                                                             *)
(***************************************************************************)
\* Noon of day 2, of day 8 and of day 9.
StatsInstants == {216000, 734400, 820800}

\* Today's form: subject 1 present in 2 lectures; subject 1 absent in 1 and
\* subject 2 present in 3; nothing held.
StatsForms ==
    { [s \in Subjects |-> IF s = 1 THEN [lectures |-> IntField(2), status |-> "present"]
                                   ELSE [lectures |-> NoField, status |-> "present"]],
      [s \in Subjects |-> IF s = 1 THEN [lectures |-> IntField(1), status |-> "absent"]
                                   ELSE [lectures |-> IntField(3), status |-> "present"]],
      [s \in Subjects |-> [lectures |-> IntField(0), status |-> "present"]] }

NextStats ==
    \/ \E t \in StatsInstants : Tick(t)
    \/ \E u \in Users : \E f \in StatsForms : MarkAttendance(u, NoField, f, TRUE)
    \/ \E u \in Users : \E s \in Subjects : GetUserAttendance(u, s)
    \/ CronWeeklyReport

SpecStats == Init /\ [][NextStats]_vars

\* What the row of user u in subject s on day d adds to the sums of the
\* ledger: nothing when there is none.
Entry(u, s, d) ==
    LET rows == rows_for(ledger, u, s, d)
    IN  IF rows = {} THEN [present |-> 0, total |-> 0]
        ELSE [present |-> (CHOOSE r \in rows : TRUE).present,
              total |-> (CHOOSE r \in rows : TRUE).total]

\* C29: the statistics of a user in a subject have attended = the sum of
\* lectures_present and total_marked = the sum of lectures_total over the
\* user's entries for the subject, remaining = max(0, total_lectures -
\* total_marked), never negative, and percentage = 0 when total_marked = 0.
C29_SubjectStats ==
    resp.op = "stats" =>
        LET u == resp.user
            s == resp.subject
            attended == Entry(u, s, 1).present + Entry(u, s, 2).present
                        + Entry(u, s, 8).present + Entry(u, s, 9).present
            marked == Entry(u, s, 1).total + Entry(u, s, 2).total
                      + Entry(u, s, 8).total + Entry(u, s, 9).total
        IN  /\ \A r \in BagToSet(ledger) : r.date \in {1, 2, 8, 9}
            /\ resp.stats.attended = attended
            /\ resp.stats.total_marked = marked
            /\ resp.stats.remaining >= 0
            /\ resp.stats.remaining =
                 IF resp.stats.total_lectures - marked > 0
                 THEN resp.stats.total_lectures - marked ELSE 0
            /\ marked = 0 => resp.stats.percentage = 0

\* C29 witness: the statistics of a subject of 3 lectures with more than 3
\* lectures marked have been read, and no lecture remains.
C29_Witness ==
    /\ resp.op = "stats" /\ resp.user = 1 /\ resp.subject = 1
    /\ resp.stats.total_marked > resp.stats.total_lectures
    /\ resp.stats.attended > 0
    /\ resp.stats.remaining = 0
    /\ \E r \in BagToSet(ledger) : r.user = 2

\* What the row of user u in subject s on day d adds to a report over the
\* days from start to end.
EntryWithin(u, s, d, start, end) ==
    IF start <= d /\ d <= end THEN Entry(u, s, d) ELSE [present |-> 0, total |-> 0]

\* C30: the weekly figures over [start, end] count exactly the user's
\* entries dated d with start <= d <= end, both bounds included; the
\* breakdown holds every known subject, with attended = 0 and total = 0 for
\* a subject without entry in the period; weekly present and total are the
\* sums of the per-subject values.
C30_WindowedStats ==
    resp.op = "report" =>
        \A u \in Users :
            LET w == resp.weekly[u]
                in(s, d) == EntryWithin(u, s, d, w.start_date, w.end_date)
                attended(s) == in(s, 1).present + in(s, 2).present
                               + in(s, 8).present + in(s, 9).present
                total(s) == in(s, 1).total + in(s, 2).total
                            + in(s, 8).total + in(s, 9).total
            IN  /\ \A r \in BagToSet(ledger) : r.date \in {1, 2, 8, 9}
                /\ w.end_date = Today(now) - 1 /\ w.start_date = w.end_date - 6
                /\ DOMAIN w.subjects_map = Subjects
                /\ \A s \in Subjects :
                     /\ w.subjects_map[s].attended = attended(s)
                     /\ w.subjects_map[s].total = total(s)
                     /\ (\A d \in w.start_date .. w.end_date : rows_for(ledger, u, s, d) = {})
                          => w.subjects_map[s] = [attended |-> 0, total |-> 0]
                /\ w.weekly_present = attended(1) + attended(2)
                /\ w.weekly_total = total(1) + total(2)

\* C30 witness: a report of day 9 over days 2 to 8, for a user with entries
\* on day 1, on day 2, on day 8 and on day 9 in subject 1, and entries of
\* subject 2 outside the period only.
C30_Witness ==
    /\ resp.op = "report" /\ Today(now) = 9
    /\ \A d \in {1, 2, 8, 9} : rows_for(ledger, 1, 1, d) # {}
    /\ rows_for(ledger, 1, 2, 9) # {}
    /\ rows_for(ledger, 1, 2, 2) = {} /\ rows_for(ledger, 1, 2, 8) = {}
    /\ resp.weekly[1].subjects_map[2] = [attended |-> 0, total |-> 0]
    /\ resp.weekly[1].weekly_total > 0
    /\ resp.weekly[1].weekly_present > 0

C32_OnlyPreviewProposes ==
    [][ /\ \A o \in OddReplies :
             LET parsed == parse_ai_response(o.text)
             IN  /\ Ran("chat")
                 /\ ~parsed.raised /\ parsed.has_action
                 /\ parsed.action # "preview_attendance"
                 /\ ChatApi(1, TRUE, 1, o)
                 => /\ session' = session
                    /\ ledger' = ledger
                    /\ resp'.code = 200 => resp'.why = "action"
        /\ Ran("chat") /\ ~session[1].has /\ session'[1].has
             => resp'.why = "preview"
        /\ /\ resp.op = "chat" /\ resp.why = "action"
           /\ ~session[1].has
           /\ Ran("confirm")
           => /\ resp'.code = 400 /\ resp'.why = "none"
              /\ ledger' = ledger
              /\ ~session'[1].has ]_vars

\* C32 witness: a chat turn has been answered 200 with an action of another
\* kind than a preview, in a session that holds no proposal, beside rows in
\* the ledger.
C32_Witness ==
    /\ resp.op = "chat" /\ resp.code = 200 /\ resp.why = "action"
    /\ ~session[1].has
    /\ ledger # EmptyBag

\* C33: a chat turn that does not produce a preview (a plain reply, a
\* rate-limit rejection, a 400, a 503 or an oracle error) leaves a pending
\* proposal as it was, creation timestamp included: the proposal is neither
\* cleared nor given more time.
C33_ChatKeepsProposal ==
    [][ \A u \in Users :
          /\ Ran("chat") /\ resp'.user = u
          /\ session[u].has
          /\ \/ resp'.code \in {429, 400, 503, 500}
             \/ resp'.code = 200 /\ resp'.why # "preview"
          => /\ session'[u].has
             /\ session'[u].data = session[u].data
             /\ session'[u].timestamp = session[u].timestamp
             /\ expired(session'[u], now') = expired(session[u], now) ]_vars

\* C33 witness: a chat turn that took a slot at an instant after the one the
\* pending proposal was created at has been answered with a plain message,
\* and the proposal is still pending.
C33_Witness ==
    /\ resp.op = "chat" /\ resp.code = 200 /\ resp.why = "message"
    /\ session[1].has
    /\ session[1].timestamp < now
    /\ accepted[1][Len(accepted[1])] = now

\* C34: a proposal is committed at most once: a confirm that comes after a
\* successful confirm of the same session, with no new proposal in between,
\* answers 400 and leaves the ledger as it was; until a chat turn stores a
\* new proposal the session holds none.
C34_CommittedOnce ==
    [][ /\ Ran("confirm") /\ resp'.code = 200 => ~session'[resp'.user].has
        /\ /\ resp.op = "confirm" /\ resp.code = 200
           /\ Ran("confirm") /\ resp'.user = resp.user
           => /\ resp'.code = 400
              /\ resp'.why \in {"none", "expired"}
              /\ resp'.marked = 0
              /\ ledger' = ledger
        /\ \A u \in Users :
             ~session[u].has /\ session'[u].has =>
                 Ran("chat") /\ resp'.code = 200 ]_vars

\* C34 witness: a confirm has been refused for want of a proposal while the
\* ledger holds a row of 2 lectures that only a committed proposal writes.
C34_Witness ==
    /\ resp.op = "confirm" /\ resp.code = 400 /\ resp.why = "none"
    /\ \E r \in BagToSet(ledger) : r.user = 1 /\ r.subject = 1 /\ r.total = 2
    /\ ~session[1].has
    /\ session[2] = NoPending

(***************************************************************************)
(* SpecSameKey: confirms of proposals with several edits for one subject   *)
(* and date, on day 1 and on day 2.                                        *)
(***************************************************************************)
\* The same date twice; two dates of the future; three edits of which the
\* first and the last share a key; an unreadable date and a date of the
\* future; one edit alone.
SameKeyBatches ==
    { <<Item(1, YmdDate(1), IntField(2), "present"),
        Item(1, YmdDate(1), IntField(1), "absent")>>,
      <<Item(1, YmdDate(2), IntField(2), "present"),
        Item(1, YmdDate(3), IntField(3), "absent")>>,
      <<Item(2, YmdDate(1), IntField(1), "absent"),
        Item(1, YmdDate(1), IntField(1), "present"),
        Item(2, YmdDate(1), IntField(2), "present")>>,
      <<Item(2, BadDate, IntField(3), "present"),
        Item(2, YmdDate(3), IntField(1), "absent")>>,
      <<Item(2, YmdDate(2), IntField(2), "absent")>> }

NextSameKey ==
    \/ \E t \in LedgerInstants : Tick(t)
    \/ \E b \in SameKeyBatches : ChatApi(1, TRUE, 1, Says(PreviewReply(b)))
    \/ \E db_ok \in BOOLEAN : ConfirmAttendance(1, db_ok)

SpecSameKey == Init /\ [][NextSameKey]_vars

\* C35: when a confirmed batch holds two or more edits that resolve to the
\* same subject and date, edits whose different dates of the future are
\* both moved to today included, the confirm succeeds, the key holds
\* exactly one row afterwards, and the row has the values of the last of
\* these edits in the order of the list.
C35_LastEditWins ==
    [][ LET p == session[1]
            items == p.data.items
            today == Today(now)
            same(i, j) == /\ items[i].subject_id = items[j].subject_id
                          /\ EditDate(items[i], today) = EditDate(items[j], today)
        IN  ( /\ p.has /\ now - p.timestamp <= 300 /\ p.data.tag = "list"
              /\ \E i, j \in 1..Len(items) : i < j /\ same(i, j)
              /\ ConfirmAttendance(1, TRUE) )
            => /\ resp'.code = 200
               /\ \A i, j \in 1..Len(items) :
                    ( /\ i < j /\ same(i, j)
                      /\ \A k \in 1..Len(items) : same(k, j) => k <= j ) =>
                        LET rows == {r \in BagToSet(ledger') :
                                        /\ r.user = 1
                                        /\ r.subject = items[j].subject_id
                                        /\ r.date = EditDate(items[j], today)}
                        IN  /\ rows = {Row(1, items[j].subject_id, EditDate(items[j], today),
                                           items[j].lectures.val,
                                           IF items[j].status = "present"
                                           THEN items[j].lectures.val ELSE 0)}
                            /\ \A r \in rows : CopiesIn(r, ledger') = 1 ]_vars

\* C35 witness: a confirm on day 1 has applied two edits, dated day 2 and
\* day 3, to the one row of day 1, which holds the values of the second.
C35_Witness ==
    /\ resp.op = "confirm" /\ resp.code = 200 /\ resp.marked = 2
    /\ resp.sql = <<"insert", "update">>
    /\ Today(now) = 1
    /\ ledger = SetToBag({Row(1, 1, 1, 3, 0)})

(***************************************************************************)
(* SpecUsers: both users chat, confirm, save the form and call the rate    *)
(* limiter, on day 1.                                                      *)
(***************************************************************************)
NextUsers ==
    \/ \E u \in Users :
          ChatApi(u, TRUE, 1, Says(PreviewReply(<<OneAbsent, UndatedUnder>>)))
    \/ \E u \in Users : \E db_ok \in BOOLEAN : ConfirmAttendance(u, db_ok)
    \/ \E u \in Users : \E f \in StatsForms : MarkAttendance(u, NoField, f, TRUE)
    \/ \E u \in Users : CheckRateLimit(u)

SpecUsers == Init /\ [][NextUsers]_vars

\* C36: an operation of one user never affects another user's state: a
\* confirm or a direct-edit save of user u creates, changes or deletes only
\* rows of user u, and check_rate_limit(u) changes only the list of u, so
\* the statistics and the remaining quota of every other user are the same
\* before and after.
C36_UsersIsolated ==
    [][ \A u \in Users :
          /\ resp'.op \in {"confirm", "mark", "chat", "check"}
          /\ resp'.user = u
          => /\ \A r \in BagToSet(ledger) \cup BagToSet(ledger') :
                  CopiesIn(r, ledger') # CopiesIn(r, ledger) => r.user = u
             /\ \A v \in Users \ {u} :
                  /\ chat_rate_limits'[v] = chat_rate_limits[v]
                  /\ session'[v] = session[v]
                  /\ \A s \in Subjects :
                       get_user_attendance(ledger', v, s) = get_user_attendance(ledger, v, s)
                  /\ check_rate_limit(chat_rate_limits'[v], now').remaining
                       = check_rate_limit(chat_rate_limits[v], now).remaining
                  /\ check_rate_limit(chat_rate_limits'[v], now').allowed
                       = check_rate_limit(chat_rate_limits[v], now).allowed ]_vars

\* C36 witness: user 2 has confirmed a proposal while user 1 has rows in
\* the ledger, a pending proposal and chat turns recorded.
C36_Witness ==
    /\ resp.op = "confirm" /\ resp.code = 200 /\ resp.user = 2
    /\ \E r \in BagToSet(ledger) : r.user = 1
    /\ \E r \in BagToSet(ledger) : r.user = 2
    /\ session[1].has
    /\ Len(chat_rate_limits[1]) > RATE_LIMIT_REQUESTS - FreeChats
    /\ get_user_attendance(ledger, 1, 1).total_marked > 0

(***************************************************************************)
(* SpecCron: the weekly report beside chat turns and confirms of user 1    *)
(* that are in flight, on day 1 and on day 2.                              *)
(***************************************************************************)
NextCron ==
    \/ \E t \in LedgerInstants : Tick(t)
    \/ \E o \in TxnOracle : ChatApi(1, TRUE, 1, o)
    \/ \E r \in Reqs : ConfirmAttendanceBegin(r, 1)
    \/ \E r \in Reqs : TxnCommit(r)
    \/ CronWeeklyReport

SpecCron == Init /\ [][NextCron]_vars

\* C37: the weekly report job only reads: run at any point, between the
\* statements and the commit of a confirm for the same user, subject and
\* date included, it creates, changes or deletes no row of the ledger, no
\* pending proposal and no rate-limit timestamp, and the confirm in flight
\* goes on with the statements it had.
C37_ReportReadsOnly ==
    [][ Ran("report") =>
          /\ ledger' = ledger
          /\ session' = session
          /\ chat_rate_limits' = chat_rate_limits
          /\ txn' = txn
          /\ now' = now ]_vars

\* C37 witness: the report has counted a row of user 1 of yesterday while a
\* confirm with a statement for the key of that row is in flight.
C37_Witness ==
    /\ resp.op = "report" /\ resp.weekly[1].weekly_total > 0
    /\ session[1].has
    /\ \E r \in Reqs :
         /\ txn[r].busy /\ txn[r].op = "confirm" /\ txn[r].user = 1
         /\ \E i \in 1..Len(txn[r].ops) :
              /\ txn[r].ops[i].kind = "update"
              /\ txn[r].ops[i].row.date = Today(now) - 1
              /\ rows_for(ledger, 1, txn[r].ops[i].row.subject, Today(now) - 1) # {}
              /\ txn[r].ops[i].row \notin BagToSet(ledger)

(***************************************************************************)
(* Password reset: User.generate_reset_token, verify_reset_token and       *)
(* clear_reset_token, and the two routes that call them.                   *)
(***************************************************************************)
\* timedelta(minutes=15), in seconds.
RESET_TOKEN_SECONDS == 900

\* Values of the six digits secrets.randbelow draws.
Tokens == {"000000", "314159"}

\* user.generate_reset_token() at time t, the digits drawn being `token`.
generate_reset_token(user, token, t) ==
    [user EXCEPT !.reset_token = <<token>>,
                 !.reset_token_expires = <<t + RESET_TOKEN_SECONDS>>]

\* A verification that never looks at the expiry.
verify_reset_token_unexpiring(user, token, t) ==
    IF user.reset_token = None \/ user.reset_token_expires = None
    THEN FALSE
    ELSE user.reset_token = <<token>>

\* user.verify_reset_token(token) at time t.
verify_reset_token(user, token, t) ==
    IF user.reset_token = None \/ user.reset_token_expires = None
    THEN FALSE
    ELSE IF t > user.reset_token_expires[1]
    THEN FALSE
    ELSE user.reset_token = <<token>>

\* user.clear_reset_token()
clear_reset_token(user) ==
    [user EXCEPT !.reset_token = None, !.reset_token_expires = None]

\* POST /forgot-password: whether the client is logged in, the user whose
\* email was given (0: no user has it), the digits drawn, and whether the
\* commit goes through.
ForgotPassword(authenticated, u, token, db_ok) ==
    /\ IF authenticated
       THEN /\ resp' = [op |-> "forgot", user |-> u, code |-> 302,
                        why |-> "dashboard", token |-> ""]
            /\ UNCHANGED users
       ELSE IF u \notin Users
       THEN /\ resp' = [op |-> "forgot", user |-> u, code |-> 302,
                        why |-> "sent", token |-> ""]
            /\ UNCHANGED users
       ELSE IF db_ok
       THEN /\ users' = [users EXCEPT ![u] = generate_reset_token(@, token, now)]
            /\ resp' = [op |-> "forgot", user |-> u, code |-> 302,
                        why |-> "sent", token |-> token]
       ELSE /\ resp' = [op |-> "forgot", user |-> u, code |-> 200,
                        why |-> "error", token |-> ""]
            /\ UNCHANGED users
    /\ UNCHANGED <<now, ledger, chat_rate_limits, session, accepted, txn>>

\* POST /reset-password: whether the client is logged in, the user whose
\* email was given (0: none), the token and the passwords of the form, and
\* whether the commit goes through.
ResetPassword(authenticated, u, token, new_password, confirm_password, db_ok) ==
    LET answer(code, why) ==
            [op |-> "reset", user |-> u, code |-> code, why |-> why, token |-> token]
    IN  /\ IF authenticated
           THEN resp' = answer(302, "dashboard") /\ UNCHANGED users
           ELSE IF token = "" \/ new_password = ""
           THEN resp' = answer(200, "required") /\ UNCHANGED users
           ELSE IF new_password # confirm_password
           THEN resp' = answer(200, "mismatch") /\ UNCHANGED users
           ELSE IF Len(new_password) < 6
           THEN resp' = answer(200, "short") /\ UNCHANGED users
           ELSE IF u \in Users /\ verify_reset_token(users[u], token, now)
           THEN IF db_ok
                THEN /\ users' = [users EXCEPT ![u] =
                                    [clear_reset_token(@) EXCEPT
                                        !.password_hash = new_password,
                                        !.spent = @ \cup {token}]]
                     /\ resp' = answer(302, "login")
                ELSE resp' = answer(200, "error") /\ UNCHANGED users
           ELSE resp' = answer(200, "invalid") /\ UNCHANGED users
        /\ UNCHANGED <<now, ledger, chat_rate_limits, session, accepted, txn>>

(***************************************************************************)
(* SpecReset: reset codes asked for and used around the 15 minutes of a    *)
(* code drawn at the first instant.                                        *)
(***************************************************************************)
NextReset ==
    \/ \E t \in {173300, 173301, 174201} : Tick(t)
    \/ \E authenticated, db_ok \in BOOLEAN : \E u \in {0, 1} : \E token \in Tokens :
          ForgotPassword(authenticated, u, token, db_ok)
    \/ \E authenticated, db_ok \in BOOLEAN : \E u \in {0, 1} :
       \E token \in Tokens \cup {""} :
       \E new_password, confirm_password \in {"", "abc", "hunter22"} :
          ResetPassword(authenticated, u, token, new_password, confirm_password, db_ok)

SpecReset == Init /\ [][NextReset]_vars

\* C38 as claimed: a reset token is accepted only if it is the user's
\* current token and the time is at most 15 minutes after it was generated;
\* a successful reset clears the token, so that the same token is never
\* accepted a second time; and generating a new token invalidates the
\* previous one.
C38_TokenSingleUse ==
    [][ \A u \in Users :
          /\ Ran("reset") /\ resp'.user = u /\ resp'.why = "login"
             => /\ users[u].reset_token = <<resp'.token>>
                /\ users[u].reset_token_expires # None
                /\ now <= users[u].reset_token_expires[1]
                /\ users'[u].reset_token = None
                /\ resp'.token \notin users[u].spent
          /\ /\ Ran("forgot") /\ resp'.user = u /\ resp'.token # ""
             /\ users[u].reset_token # None
             => ~verify_reset_token(users'[u], users[u].reset_token[1], now') ]_vars

\* C38, amended: a reset token is accepted only if it is the user's current
\* token and the time is at most 15 minutes after it was generated; a
\* successful reset clears the token, so that no token is accepted until a
\* new one is generated; and generating a token replaces the previous one,
\* which is accepted from then on only if the digits drawn are the same.
C38_TokenCurrentAndFresh ==
    [][ \A u \in Users :
          /\ Ran("reset") /\ resp'.user = u /\ resp'.why = "login"
             => /\ users[u].reset_token = <<resp'.token>>
                /\ users[u].reset_token_expires # None
                /\ now <= users[u].reset_token_expires[1]
                /\ users'[u].reset_token = None
                /\ users'[u].reset_token_expires = None
          /\ Ran("forgot") /\ resp'.user = u /\ resp'.token # ""
             => /\ users'[u].reset_token = <<resp'.token>>
                /\ users'[u].reset_token_expires = <<now + 15 * 60>>
                /\ \A k \in Tokens :
                     verify_reset_token(users'[u], k, now') => k = resp'.token
          /\ Ran("reset") /\ resp'.user = u /\ users[u].reset_token = None
             => resp'.why # "login" /\ users' = users
          /\ users'[u] # users[u]
             => /\ resp'.user = u
                /\ \/ Ran("reset") /\ resp'.why = "login"
                   \/ Ran("forgot") /\ resp'.why = "sent" ]_vars

\* C38 witness: a reset has been accepted at the last second of the 15
\* minutes of its token, which is cleared, and the password is the new one.
C38_Witness ==
    /\ resp.op = "reset" /\ resp.why = "login" /\ resp.user = 1
    /\ now = 173300
    /\ users[1].reset_token = None /\ users[1].reset_token_expires = None
    /\ users[1].password_hash = "hunter22"
    /\ users[1].spent = {resp.token}

====
